---- MODULE Spec2Model ----
(***************************************************************************)
(* A model of the catalog media library (src/catalog): the Library         *)
(* aggregate (media objects, tags, groups), its persisted JSON document,   *)
(* and the identifier / locator resolution functions.                      *)
(*                                                                         *)
(* Strings that the program slices, prefixes or lower-cases (ids, names,   *)
(* locator parts) are modelled as sequences of one-character strings, so   *)
(* that startswith, [:n], lower() and int() are computed, not assumed.     *)
(***************************************************************************)
EXTENDS Integers, Sequences, FiniteSets, TLC

VARIABLES
    media_objects,  \* Library.media_objects: sequence of media object records
    tags,           \* Library.tags: sequence of tag records
    groups,         \* Library.groups: sequence of group trees (when defined)
    groupsDefined,  \* whether the attribute Library.groups exists on the instance
    doc,            \* the persisted library document (NoDoc when the file is absent)
    usedIds,        \* ids uuid4 has already handed out (never handed out twice)
    last            \* the last call made on the library and its outcome

vars == <<media_objects, tags, groups, groupsDefined, doc, usedIds, last>>

(***************************************************************************)
(* Bounds of the model.                                                    *)
(***************************************************************************)
IdLen == 6          \* modelled length of an id string (a uuid4 string in the code)
NumTagIds == 2      \* how many tag ids uuid4 can hand out
MaxParentLinks == 1 \* cap on the parent references held by all tags together
NumObjIds == 2      \* how many media object ids uuid4 can hand out
NumContents == 2    \* how many distinct file contents exist
NumGroupIds == 2    \* how many group ids uuid4 can hand out
MaxGroupNodes == 5  \* cap on the groups of the hierarchy, nested copies included
MaxEntries == 2     \* cap on the transcripts of the library
MaxGroupTags == 2   \* cap on the tag assignments held by all groups together
MaxTaggedNodes == 3 \* cap on the groups of a hierarchy whose groups are tagged

(***************************************************************************)
(* Program constants.                                                      *)
(***************************************************************************)
MinPartialLen == 5  \* get_tag_id: "partial ID of >= 5 characters"
ObjPrefixLen == 8   \* search: media_id[:8]
EntryPrefixLen == 5 \* search: entry['id'][:5]

NoDoc == [missing |-> TRUE]  \* os.path.exists(library_path) is false
NoClass == "NoClass"         \* media_object_class=None
None == <<>>       \* Python None where a string is expected (falsy, like "")

(***************************************************************************)
(* String helpers (Python str operations).                                 *)
(***************************************************************************)
Take(s, n) == SubSeq(s, 1, IF n < Len(s) THEN n ELSE Len(s))

StartsWith(s, p) == Len(p) <= Len(s) /\ SubSeq(s, 1, Len(p)) = p

LowerChar(c) ==
    CASE c = "W" -> "w"
      [] c = "M" -> "m"
      [] c = "A" -> "a"
      [] c = "B" -> "b"
      [] OTHER -> c

Lower(s) == [i \in 1..Len(s) |-> LowerChar(s[i])]

RECURSIVE JoinWith(_, _)
JoinWith(parts, sep) ==
    IF Len(parts) = 0 THEN <<>>
    ELSE IF Len(parts) = 1 THEN parts[1]
    ELSE parts[1] \o <<sep>> \o JoinWith(Tail(parts), sep)

SelectIdx(s, Test(_)) == {i \in 1..Len(s) : Test(s[i])}

Min(S) == CHOOSE x \in S : \A y \in S : x <= y

\* next((x for x in s if Test(x)), None): position of the first match, 0 if none
FirstIdx(s, Test(_)) ==
    IF SelectIdx(s, Test) = {} THEN 0 ELSE Min(SelectIdx(s, Test))

(***************************************************************************)
(* Ids.  An id is IdLen characters.  The first two tag ids share their      *)
(* first MinPartialLen characters; further ones do not.                    *)
(***************************************************************************)
MkId(body, lastc) == [i \in 1..IdLen |-> IF i < IdLen THEN body ELSE lastc]

Digits == <<"1", "2", "3", "4", "5", "6", "7", "8", "9">>

TagIdPool ==
    {MkId(IF k <= 2 THEN "a" ELSE "b", Digits[k]) : k \in 1..NumTagIds}

\* tag names callers pass: a name, its upper-case variant, and a name that is
\* also a MinPartialLen-character prefix of a tag id
TagNames ==
    { <<"w">>, <<"W">>, Take(MkId("a", "1"), MinPartialLen) }

(***************************************************************************)
(* Tag graph (src/catalog/library.py).                                     *)
(***************************************************************************)
TagIds(ts) == {ts[i]["id"] : i \in 1..Len(ts)}

TagIndex(ts, tag_id) ==
    LET Is(t) == t["id"] = tag_id IN FirstIdx(ts, Is)

Ok(v) == [kind |-> "ok", value |-> v]
ValueError(m) == [kind |-> "ValueError", msg |-> m]

\* get_tag_id: [tag for tag in self.tags if tag["id"].startswith(target)]
PartialMatches(ts, target) ==
    SelectSeq(ts, LAMBDA t : StartsWith(t["id"], target))

\* a variant of NameMatches that forgets .lower()
NameMatchesCaseSensitive(ts, target) ==
    SelectSeq(ts, LAMBDA t : t["name"] = target)

\* get_tag_id: [tag for tag in self.tags if tag["name"].lower() == target.lower()]
NameMatches(ts, target) ==
    SelectSeq(ts, LAMBDA t : Lower(t["name"]) = Lower(target))

\* get_tag_id: the "Multiple matches found" error, naming every match
MultipleMatches(matches) ==
    [kind |-> "ValueError", msg |-> "Multiple matches found for tag",
     candidates |-> [i \in 1..Len(matches) |-> matches[i]["id"]]]

\* Library.get_tag_id
get_tag_id(ts, target) ==
    LET partial_matches == PartialMatches(ts, target)
        potential_matches == NameMatches(ts, target)
        ByName ==
            IF Len(potential_matches) = 1 THEN Ok(potential_matches[1]["id"])
            ELSE IF Len(potential_matches) > 1 THEN MultipleMatches(potential_matches)
            ELSE ValueError("No close match found for tag")
    IN  IF target \in TagIds(ts) THEN Ok(target)
        ELSE IF Len(target) >= MinPartialLen
        THEN IF Len(partial_matches) = 1 THEN Ok(partial_matches[1]["id"])
             ELSE IF Len(partial_matches) > 1 THEN MultipleMatches(partial_matches)
             ELSE ByName
        ELSE ByName

\* Library.get_tag_name: the loop over the first parent, bounded by fuel;
\* it runs out of fuel exactly when the first-parent chain cycles
RECURSIVE tag_name_parts(_, _, _, _)
tag_name_parts(ts, tag, parts, fuel) ==
    IF Len(tag["parents"]) = 0 THEN parts
    ELSE IF fuel = 0 THEN <<>>
    ELSE LET parent_id == tag["parents"][1]
             k == TagIndex(ts, parent_id)
         IN  IF k = 0 THEN parts
             ELSE tag_name_parts(ts, ts[k], <<ts[k]["name"]>> \o parts, fuel - 1)

get_tag_name(ts, tag_id, mode) ==
    LET k == TagIndex(ts, tag_id)
        parts == tag_name_parts(ts, ts[k], <<ts[k]["name"]>>, Len(ts))
    IN  IF k = 0 THEN ValueError("No tag found with ID")
        ELSE IF parts = <<>> THEN [kind |-> "diverges"]
        ELSE IF mode = "full" THEN Ok(JoinWith(parts, "/"))
        ELSE Ok(parts[Len(parts)])

\* the list comprehension of delete_tag / untag_*: drop assignments of tag_id
StripAssignments(assigned, tag_id) ==
    SelectSeq(assigned, LAMBDA a : a["id"] # tag_id)

StripEntries(entries, tag_id) ==
    [i \in 1..Len(entries) |->
        [entries[i] EXCEPT !["tags"] = StripAssignments(@, tag_id)]]

\* list.remove(x): drops the first occurrence only
RemoveFirst(s, x) ==
    LET Is(y) == y = x
        k == FirstIdx(s, Is)
    IN  IF k = 0 THEN s ELSE SubSeq(s, 1, k - 1) \o SubSeq(s, k + 1, Len(s))

RECURSIVE SumLen(_, _)
SumLen(s, field) ==
    IF s = <<>> THEN 0 ELSE Len(s[1][field]) + SumLen(Tail(s), field)

ParentLinks(ts) == SumLen(ts, "parents")

\* a variant of TagNameExists that forgets .lower()
TagNameExistsCaseSensitive(ts, name) ==
    \E i \in 1..Len(ts) : ts[i]["name"] = name

\* create_tag: any(tag["name"].lower() == name.lower() for tag in self.tags)
TagNameExists(ts, name) ==
    \E i \in 1..Len(ts) : Lower(ts[i]["name"]) = Lower(name)

\* Library.create_tag
CreateTag(name, parent, new_id) ==
    /\ IF TagNameExists(tags, name)
       THEN /\ last' = [op |-> "create_tag", name |-> name, parent |-> parent,
                        out |-> ValueError("Tag already exists")]
            /\ UNCHANGED <<tags, usedIds>>
       ELSE /\ new_id \notin usedIds
            /\ parent # None => ParentLinks(tags) < MaxParentLinks
            /\ tags' = Append(tags, [id |-> new_id, name |-> name,
                                     parents |-> IF parent # None THEN <<parent>>
                                                 ELSE <<>>,
                                     description |-> ""])
            /\ usedIds' = usedIds \cup {new_id}
            /\ last' = [op |-> "create_tag", name |-> name, parent |-> parent,
                        out |-> Ok(new_id)]
    /\ UNCHANGED <<media_objects, groups, groupsDefined, doc>>

\* Library.rename_tag
RenameTag(tag_id, new_name) ==
    LET k == TagIndex(tags, tag_id)
    IN  /\ IF k # 0
           THEN /\ tags' = [tags EXCEPT ![k]["name"] = new_name]
                /\ last' = [op |-> "rename_tag", out |-> Ok(None)]
           ELSE /\ last' = [op |-> "rename_tag", out |-> ValueError("No tag found with ID")]
                /\ UNCHANGED tags
        /\ UNCHANGED <<media_objects, groups, groupsDefined, doc, usedIds>>

\* Library.add_parent_tag
AddParentTag(tag_id, parent_id) ==
    LET k == TagIndex(tags, tag_id)
    IN  /\ ParentLinks(tags) < MaxParentLinks
        /\ IF k # 0
           THEN /\ tags' = IF \E j \in 1..Len(tags[k]["parents"]) :
                                  tags[k]["parents"][j] = parent_id
                           THEN tags
                           ELSE [tags EXCEPT ![k]["parents"] = Append(@, parent_id)]
                /\ last' = [op |-> "add_parent_tag", out |-> Ok(None)]
           ELSE /\ last' = [op |-> "add_parent_tag", out |-> ValueError("No tag found with ID")]
                /\ UNCHANGED tags
        /\ UNCHANGED <<media_objects, groups, groupsDefined, doc, usedIds>>

\* Library.remove_parent_tag
RemoveParentTag(tag_id, parent_id) ==
    LET k == TagIndex(tags, tag_id)
    IN  /\ IF k # 0
           THEN /\ tags' = [tags EXCEPT ![k]["parents"] =
                                SelectSeq(@, LAMBDA pid : pid # parent_id)]
                /\ last' = [op |-> "remove_parent_tag", out |-> Ok(None)]
           ELSE /\ last' = [op |-> "remove_parent_tag", out |-> ValueError("No tag found with ID")]
                /\ UNCHANGED tags
        /\ UNCHANGED <<media_objects, groups, groupsDefined, doc, usedIds>>

\* Library.delete_tag
DeleteTag(tag_id) ==
    /\ tags' = SelectSeq(tags, LAMBDA t : t["id"] # tag_id)
    /\ media_objects' =
           [i \in 1..Len(media_objects) |->
               [media_objects[i] EXCEPT
                   !["tags"] = StripAssignments(@, tag_id),
                   !["transcripts"] = StripEntries(@, tag_id),
                   !["speech_data"] = StripEntries(@, tag_id)]]
    /\ groups' = [i \in 1..Len(groups) |->
                     [groups[i] EXCEPT !["tags"] = RemoveFirst(@, tag_id)]]
    /\ last' = [op |-> "delete_tag", out |-> Ok(None)]
    /\ UNCHANGED <<groupsDefined, doc, usedIds>>

\* a caller resolving a tag string: Library.get_tag_id(target)
GetTagId(target) ==
    /\ last' = [op |-> "get_tag_id", target |-> target,
                out |-> get_tag_id(tags, target)]
    /\ UNCHANGED <<media_objects, tags, groups, groupsDefined, doc, usedIds>>

\* strings callers pass to get_tag_id: ids, id prefixes at and just below the
\* partial-id length, names, and qualified names "parent/child"
TagTargets ==
    TagIdPool
    \cup {Take(id, MinPartialLen) : id \in TagIdPool}
    \cup {Take(id, MinPartialLen - 1) : id \in TagIdPool}
    \cup TagNames
    \cup {p \o <<"/">> \o c : p \in TagNames, c \in TagNames}

InitTags ==
    /\ media_objects = <<>>
    /\ tags = <<>>
    /\ groups = <<>>
    /\ groupsDefined = TRUE
    /\ doc = NoDoc
    /\ usedIds = {}
    /\ last = [op |-> "init"]

NextTags ==
    \/ \E name \in TagNames, parent \in {None} \cup TagIds(tags), id \in TagIdPool :
           CreateTag(name, parent, id)
    \/ \E id \in TagIdPool, name \in TagNames : RenameTag(id, name)
    \/ \E id \in TagIdPool, parent \in TagIds(tags) : AddParentTag(id, parent)
    \/ \E id \in TagIdPool, parent \in TagIdPool : RemoveParentTag(id, parent)
    \/ \E id \in TagIdPool : DeleteTag(id)

SpecTags == InitTags /\ [][NextTags]_vars

(***************************************************************************)
(* Media objects, import and the persisted document                        *)
(* (src/catalog/library.py, src/catalog/media.py).                         *)
(***************************************************************************)
ObjIdPool == {MkId("c", Digits[k]) : k \in 1..NumObjIds}

\* the concrete subclasses of MediaObject
MediaClasses == {"Video", "Audio", "Voice", "Image", "Screenshot", "Chat"}

\* the classes the modelled callers name
ImportClasses == {"Video", "Voice", "Chat"}

\* import_media_object: ext_map, the extension -> class table of auto mode
ExtClass(ext) ==
    CASE ext \in {".mp3", ".wav", ".flac", ".m4a", ".ogg"} -> "Voice"
      [] ext \in {".mp4", ".mkv", ".webm", ".avi", ".mov"} -> "Video"
      [] OTHER -> NoClass

\* hashlib.md5(content).hexdigest(): distinct digests for the distinct contents
Md5(content) == <<"md5", content>>

\* Library.compute_md5_hash: None unless file_path names an existing file
compute_md5_hash(src) ==
    IF src["kind"] = "file" THEN Md5(src["content"]) ELSE None

\* Library.fetch_object_by_hash: position of the first object with that hash
fetch_object_by_hash(objs, md5_hash) ==
    LET Is(o) == o["md5_hash"] = md5_hash IN FirstIdx(objs, Is)

\* datetime values and their text: a value is a datetime, a str or None
Datetime(t) == [kind |-> "datetime", t |-> t]
NoDate == [kind |-> "None"]

\* datetime.isoformat(), applied only to datetime values (serialize_object)
IsoFormat(v) == IF v["kind"] = "datetime" THEN [kind |-> "str", t |-> v["t"]] ELSE v

\* datetime.fromisoformat(value) if value and isinstance(value, str) else value
FromIsoFormat(v) == IF v["kind"] = "str" THEN [kind |-> "datetime", t |-> v["t"]] ELSE v

\* MediaObject.__init__ and its subclasses: the fields of a new object.
\* get_file_dates gives datetime values for the file the object was made of.
NewObject(id, cls, src) ==
    [id |-> id,
     class_name |-> cls,
     md5_hash |-> compute_md5_hash(src),
     file_path |-> IF src["kind"] = "url" THEN <<"tmp", src["url"]>>
                   ELSE <<"source">>,
     url |-> IF src["kind"] = "url" THEN src["url"] ELSE "",
     date_created |-> Datetime("ctime"),
     date_modified |-> Datetime("mtime"),
     tags |-> <<>>,
     transcripts |-> <<>>,
     speech_data |-> <<>>]

\* Library.serialize_object: the record written into the document
serialize_object(o) ==
    [id |-> o["id"],
     metadata |-> [url |-> o["url"], tags |-> o["tags"],
                   date_created |-> IsoFormat(o["date_created"]),
                   date_modified |-> IsoFormat(o["date_modified"])],
     file_path |-> o["file_path"],
     md5_hash |-> o["md5_hash"],
     class_name |-> o["class_name"],
     module_name |-> "catalog.media",
     transcripts |-> o["transcripts"],
     speech_data |-> o["speech_data"]]

\* Library.serialize_group
RECURSIVE serialize_group(_)
serialize_group(g) ==
    [id |-> g["id"], name |-> g["name"], date_created |-> g["date_created"],
     objects |-> g["objects"], tags |-> g["tags"],
     groups |-> [i \in 1..Len(g["groups"]) |-> serialize_group(g["groups"][i])]]

\* Library.save_library: the document json.dump writes
SavedDoc(objs, ts, gs) ==
    [media_objects |-> [i \in 1..Len(objs) |-> serialize_object(objs[i])],
     tags |-> ts,
     groups |-> [i \in 1..Len(gs) |-> serialize_group(gs[i])]]

\* what a call of import_media_object leaves behind: the object list, the
\* document, the ids handed out and the call's outcome
ImportEffect(objs, d, out, new_ids, call) ==
    /\ new_ids \cap usedIds = {}
    /\ media_objects' = objs
    /\ doc' = d
    /\ usedIds' = usedIds \cup new_ids
    /\ last' = [op |-> "import_media_object", md5_hash |-> call["md5_hash"],
                cls |-> call["cls"], src |-> call["src"], auto |-> call["auto"],
                out |-> out]
    /\ UNCHANGED <<tags, groups, groupsDefined>>

Raised(exc) == [kind |-> exc]
Returned(id, note) == [kind |-> "ok", value |-> id, note |-> note]

\* ValueError(f"Unsupported file type: {ext}")
Unsupported(ext) == [kind |-> "ValueError", msg |-> "Unsupported file type", ext |-> ext]

\* Library.import_media_object(file_path | url, media_object_class, auto, make_copy)
ImportMediaObject(src, media_object_class, auto, make_copy, new_id) ==
    LET is_chat_yaml ==
            media_object_class = "Chat" /\ src["kind"] # "url" /\ src["ext"] = ".yaml"
        cls == IF auto THEN ExtClass(src["ext"]) ELSE media_object_class
        md5_hash == compute_md5_hash(src)
        existing == fetch_object_by_hash(media_objects, md5_hash)
        stored == NewObject(new_id, cls, src)
        call == [md5_hash |-> md5_hash, cls |-> cls, src |-> src, auto |-> auto]
        copied == IF make_copy /\ src["kind"] = "file"
                  THEN [stored EXCEPT !["file_path"] = <<"datastore", new_id>>]
                  ELSE stored
    IN  /\ new_id \in ObjIdPool
        /\ IF media_object_class = "Chat" /\ src["kind"] = "url"
           THEN \* _handle_chat: file_path.lower() on None
                ImportEffect(media_objects, doc, Raised("AttributeError"), {}, call)
           ELSE IF is_chat_yaml /\ src["kind"] = "missing"
           THEN \* _prepare_chat_data: open(yaml_file)
                ImportEffect(media_objects, doc, Raised("FileNotFoundError"), {}, call)
           ELSE IF is_chat_yaml /\ existing = 0 /\ ~groupsDefined
           THEN \* _handle_chat appends, then save_library reads self.groups
                ImportEffect(Append(media_objects, NewObject(new_id, "Chat", src)), doc,
                             Raised("AttributeError"), {new_id}, call)
           ELSE IF auto /\ src["kind"] = "url"
           THEN \* os.path.splitext(None)
                ImportEffect(media_objects, doc, Raised("TypeError"), {}, call)
           ELSE IF auto /\ cls = NoClass /\ is_chat_yaml /\ existing = 0
           THEN \* _handle_chat stored and saved the chat; then the extension
                \* is looked up in ext_map and refused
                LET objs == Append(media_objects, NewObject(new_id, "Chat", src))
                IN  ImportEffect(objs, SavedDoc(objs, tags, groups),
                                 Unsupported(src["ext"]), {new_id}, call)
           ELSE IF auto /\ cls = NoClass
           THEN ImportEffect(media_objects, doc, Unsupported(src["ext"]), {}, call)
           ELSE IF is_chat_yaml /\ existing = 0 /\ ~auto
           THEN \* _handle_chat stored and saved it; the code below finds it by hash
                LET objs == Append(media_objects, NewObject(new_id, "Chat", src))
                IN  ImportEffect(objs, SavedDoc(objs, tags, groups),
                                 Returned(new_id, "already exists"), {new_id}, call)
           ELSE IF cls \notin MediaClasses
           THEN ImportEffect(media_objects, doc, Raised("ValueError"), {}, call)
           ELSE IF src["kind"] = "missing"
           THEN \* MediaObject.import_file
                ImportEffect(media_objects, doc, Raised("FileNotFoundError"), {}, call)
           ELSE IF cls = "Voice"
           THEN \* media_object.set_timestamp(): no class defines it
                ImportEffect(media_objects, doc, Raised("AttributeError"), {}, call)
           ELSE IF existing # 0
           THEN ImportEffect(media_objects, doc,
                             Returned(media_objects[existing]["id"], "already exists"), {}, call)
           ELSE IF ~groupsDefined
           THEN \* the object is appended (and copied), then save_library raises
                ImportEffect(Append(media_objects, copied), doc,
                             Raised("AttributeError"), {new_id}, call)
           ELSE LET objs == Append(media_objects, copied)
                IN  ImportEffect(objs, SavedDoc(objs, tags, groups),
                                 Returned(new_id, "imported"), {new_id}, call)

\* the sources an import is given: existing files (extension and content),
\* a path with no file, and URLs
Exts == {".mp4", ".mp3", ".txt", ".yaml"}

Sources ==
    [kind : {"file"}, ext : Exts, content : 1..NumContents]
    \cup [kind : {"missing"}, ext : {".mp4"}]
    \cup [kind : {"url"}, ext : {""}, url : {"u1", "u2"}]

\* a document holding no objects, tags or groups (a file made by hand, "{}")
EmptyDoc == [media_objects |-> <<>>, tags |-> <<>>, groups |-> <<>>]

\* Library.__init__ and load_library, on an absent or an empty document
InitImport ==
    /\ doc \in {NoDoc, EmptyDoc}
    /\ media_objects = <<>>
    /\ tags = <<>>
    /\ groups = <<>>
    /\ groupsDefined = (doc # NoDoc)
    /\ usedIds = {}
    /\ last = [op |-> "init"]

NextImport ==
    \E src \in Sources, cls \in ImportClasses \cup {NoClass}, make_copy \in BOOLEAN,
       id \in ObjIdPool :
        ImportMediaObject(src, cls, cls = NoClass, make_copy, id)

SpecImport == InitImport /\ [][NextImport]_vars

(***************************************************************************)
(* Tag resolution is a pure function of the tag table and the target.  It  *)
(* is checked from every tag table the mutators above can build (distinct  *)
(* ids; any names, as rename_tag checks none; parents naming any id, as    *)
(* delete_tag leaves them in place).                                       *)
(***************************************************************************)
ParentLists == {<<>>} \cup {<<p>> : p \in TagIdPool}

TagRecords ==
    [id : TagIdPool, name : TagNames, parents : ParentLists, description : {""}]

TagTables ==
    UNION {{ts \in [1..k -> TagRecords] :
               /\ \A i, j \in 1..k : i # j => ts[i]["id"] # ts[j]["id"]
               /\ ParentLinks(ts) <= MaxParentLinks} : k \in 0..NumTagIds}

InitResolve ==
    /\ media_objects = <<>>
    /\ tags \in TagTables
    /\ groups = <<>>
    /\ groupsDefined = TRUE
    /\ doc = NoDoc
    /\ usedIds = TagIdPool
    /\ last = [op |-> "init"]

NextResolve == \E target \in TagTargets : GetTagId(target)

SpecResolve == InitResolve /\ [][NextResolve]_vars

(***************************************************************************)
(* Claims about the tag graph.                                             *)
(***************************************************************************)

\* C3: in every state reachable through create_tag, rename_tag,
\* add_parent_tag, remove_parent_tag and delete_tag, no two tags have names
\* that are equal ignoring case.
TagNamesUnique ==
    \A i, j \in 1..Len(tags) :
        i # j => Lower(tags[i]["name"]) # Lower(tags[j]["name"])

\* C4: create_tag(name, parent) fails, leaving the tags unchanged, whenever an
\* existing tag's name equals name ignoring case, whatever the parent; otherwise
\* it appends exactly one tag, carrying that name.
CreateTagContract ==
    [][last'["op"] = "create_tag" =>
          IF \E i \in 1..Len(tags) : Lower(tags[i]["name"]) = Lower(last'["name"])
          THEN last'["out"]["kind"] = "ValueError" /\ tags' = tags
          ELSE /\ last'["out"]["kind"] = "ok"
               /\ Len(tags') = Len(tags) + 1
               /\ SubSeq(tags', 1, Len(tags)) = tags
               /\ tags'[Len(tags')]["name"] = last'["name"]
               /\ tags'[Len(tags')]["id"] = last'["out"]["value"]]_vars

\* a create_tag that failed on a name differing only in case from an existing
\* tag's, with the second of two existing tags given as the parent
CreateTagRejected ==
    /\ last["op"] = "create_tag"
    /\ last["out"]["kind"] = "ValueError"
    /\ Len(tags) = 2
    /\ last["parent"] = tags[2]["id"]
    /\ \E i \in 1..Len(tags) :
           tags[i]["name"] # last["name"] /\ Lower(tags[i]["name"]) = Lower(last["name"])

QualifiedNameResolves ==
    \A i \in 1..Len(tags) :
        ( /\ last["op"] = "get_tag_id"
          /\ Len(tags[i]["parents"]) > 0
          /\ TagIndex(tags, tags[i]["parents"][1]) # 0
          /\ get_tag_name(tags, tags[i]["id"], "full") = Ok(last["target"]) )
        => last["out"] = Ok(tags[i]["id"])

(***************************************************************************)
(* Claims about import and the persisted document.                         *)
(***************************************************************************)

\* no two media objects of the library have the same md5_hash
HashesUnique ==
    \A i, j \in 1..Len(media_objects) :
        i # j => media_objects[i]["md5_hash"] # media_objects[j]["md5_hash"]

\* C1: no two media objects have the same md5_hash, and importing (as any
\* media class) a file whose content an object of the library already has
\* returns that object and leaves media_objects unchanged.
ImportDeduplicates ==
    [][/\ HashesUnique'
       /\ ( /\ last'["op"] = "import_media_object"
            /\ last'["cls"] \in MediaClasses
            /\ last'["md5_hash"] # None
            /\ fetch_object_by_hash(media_objects, last'["md5_hash"]) # 0 )
          => /\ media_objects' = media_objects
             /\ last'["out"]["kind"] = "ok"
             /\ last'["out"]["value"] =
                    media_objects[fetch_object_by_hash(media_objects,
                                                       last'["md5_hash"])]["id"]]_vars

\* C2: on a Library constructed with no document at library_path, the first
\* import of a new file succeeds and leaves a document holding exactly that
\* object.
FreshLibraryFirstImportSaved ==
    ( /\ ~groupsDefined
      /\ last["op"] = "import_media_object"
      /\ Len(media_objects) = 1 )
    => /\ last["out"]["kind"] = "ok"
       /\ doc # NoDoc
       /\ Len(doc["media_objects"]) = 1
       /\ doc["media_objects"][1]["id"] = media_objects[1]["id"]

(***************************************************************************)
(* Groups (src/catalog/library.py, src/catalog/cli.py).  Every CLI command  *)
(* builds a Library from the document, changes it and saves it, so between *)
(* commands the groups are what deserialize_group makes of the document:   *)
(* a forest in which every nested subgroup is an object of its own.        *)
(***************************************************************************)
GroupIdPool == {MkId("g", Digits[k]) : k \in 1..NumGroupIds}

\* names callers give to groups
GroupNames == { <<"w">>, <<"m">> }

\* identifiers callers pass: a name in either case, a full id, an id prefix
GroupIdentifiers == GroupNames \cup { <<"W">> } \cup GroupIdPool \cup { Take(MkId("g", "1"), 1) }

\* Group.__init__: datetime.now() as a logical clock, the number of groups
\* made so far
Now == Cardinality(usedIds \cap GroupIdPool) + 1

\* Group.__init__
NewGroup(id, name) ==
    [id |-> id, name |-> name, date_created |-> Now,
     objects |-> <<>>, tags |-> <<>>, groups |-> <<>>]

\* Library.deserialize_group: objects are looked up again by id
\* (Library.fetch), subgroups are built anew
RECURSIVE deserialize_group(_, _)
deserialize_group(objs, group_data) ==
    [id |-> group_data["id"], name |-> group_data["name"],
     date_created |-> group_data["date_created"],
     objects |-> [i \in 1..Len(group_data["objects"]) |->
                    LET Is(o) == StartsWith(o["id"], group_data["objects"][i])
                    IN  objs[FirstIdx(objs, Is)]["id"]],
     tags |-> group_data["tags"],
     groups |-> [i \in 1..Len(group_data["groups"]) |->
                    deserialize_group(objs, group_data["groups"][i])]]

\* Library.load_library: self.groups
LoadedGroups(objs, d) ==
    [i \in 1..Len(d["groups"]) |-> deserialize_group(objs, d["groups"][i])]

\* fetch_group: the "Multiple matches found" error, naming every match
MultipleGroups(matches) ==
    [kind |-> "ValueError", msg |-> "Multiple matches found for group",
     candidates |-> matches]

\* Library.fetch_group: the position in self.groups of the group found
\* (only the top-level groups are searched)
fetch_group(gs, group_identifier) ==
    LET IdIs(g) == StartsWith(g["id"], group_identifier)
        NameIs(g) == g["name"] # None /\ Lower(g["name"]) = Lower(group_identifier)
        potential_matches == SelectIdx(gs, NameIs)
    IN  IF FirstIdx(gs, IdIs) # 0 THEN Ok(FirstIdx(gs, IdIs))
        ELSE IF Cardinality(potential_matches) = 1 THEN Ok(Min(potential_matches))
        ELSE IF Cardinality(potential_matches) > 1 THEN MultipleGroups(potential_matches)
        ELSE ValueError("No group found with identifier")

\* list.sort(key=lambda x: x.date_created): stable, ascending
RECURSIVE SortByDateCreated(_)
SortByDateCreated(s) ==
    IF s = <<>> THEN <<>>
    ELSE LET m == Min({s[i]["date_created"] : i \in 1..Len(s)})
             IsMin(g) == g["date_created"] = m
             k == FirstIdx(s, IsMin)
         IN  <<s[k]>> \o SortByDateCreated(SubSeq(s, 1, k - 1) \o SubSeq(s, k + 1, Len(s)))

\* Group.add_groups
add_groups(group, new_groups) ==
    [group EXCEPT !["groups"] = SortByDateCreated(group["groups"] \o new_groups)]

\* the number of groups in a forest, nested ones included
RECURSIVE ForestSize(_)
ForestSize(gs) ==
    IF gs = <<>> THEN 0
    ELSE 1 + ForestSize(Head(gs)["groups"]) + ForestSize(Tail(gs))

\* the ids of the groups in a forest, nested ones included
RECURSIVE ForestIds(_)
ForestIds(gs) ==
    IF gs = <<>> THEN {}
    ELSE {Head(gs)["id"]} \cup ForestIds(Head(gs)["groups"]) \cup ForestIds(Tail(gs))

\* what a command leaves behind when it saved: the document, and the groups
\* the next command loads from it
GroupsSaved(gs, out, op, new_ids) ==
    /\ ForestSize(gs) <= MaxGroupNodes
    /\ new_ids \cap usedIds = {}
    /\ doc' = SavedDoc(media_objects, tags, gs)
    /\ groups' = LoadedGroups(media_objects, SavedDoc(media_objects, tags, gs))
    /\ usedIds' = usedIds \cup new_ids
    /\ last' = [op |-> op, out |-> out]
    /\ UNCHANGED <<media_objects, tags, groupsDefined>>

\* what a command leaves behind when it ended before saving
GroupsNotSaved(out, op) ==
    /\ last' = [op |-> op, out |-> out]
    /\ UNCHANGED <<media_objects, tags, groups, groupsDefined, doc, usedIds>>

\* cli.group_command without object ids: `catalog group NAME [-g IDS]`.
\* nested_groups is the list split from -g (empty when the option is absent).
GroupCommand(name, nested_groups, confirm, new_id) ==
    LET found == fetch_group(groups, name)
        creates == found["kind"] # "ok"
        gs == IF creates THEN Append(groups, NewGroup(new_id, name)) ELSE groups
        at == IF creates THEN Len(gs) ELSE found["value"]
        subs == [i \in 1..Len(nested_groups) |-> fetch_group(gs, nested_groups[i])]
        subgroups == [i \in 1..Len(subs) |-> gs[subs[i]["value"]]]
    IN  IF creates /\ ~confirm
        THEN GroupsNotSaved(Ok(None), "group")
        ELSE IF \E i \in 1..Len(subs) : subs[i]["kind"] # "ok"
        THEN \* fetch_group raises; nothing catches it
             GroupsNotSaved(Raised("ValueError"), "group")
        ELSE IF \E i \in 1..Len(subs) : subs[i]["value"] = at
        THEN \* the group is now in its own groups list: serialize_group
             \* recurses until RecursionError, before the file is opened
             GroupsNotSaved(Raised("RecursionError"), "group")
        ELSE GroupsSaved([gs EXCEPT ![at] = add_groups(gs[at], subgroups)],
                         Ok(gs[at]["id"]), "group",
                         IF creates THEN {new_id} ELSE {})

\* cli.manage_group, action set-parent.  `group in parent_group.groups`
\* compares objects, and the subgroups loaded from the document are objects
\* of their own, so it is false for every top-level group.
ManageSetParent(group_str, parent) ==
    LET g == fetch_group(groups, group_str)
        p == fetch_group(groups, parent)
    IN  IF g["kind"] # "ok" THEN GroupsNotSaved(g, "set-parent")
        ELSE IF p["kind"] # "ok" THEN GroupsNotSaved(p, "set-parent")
        ELSE IF groups[p["value"]]["id"] = groups[g["value"]]["id"]
        THEN GroupsNotSaved(ValueError("A group cannot be its own parent"), "set-parent")
        ELSE GroupsSaved([groups EXCEPT ![p["value"]] =
                              add_groups(groups[p["value"]], <<groups[g["value"]]>>)],
                         Ok(groups[g["value"]]["id"]), "set-parent", {})

\* cli.manage_group, action remove-parent
ManageRemoveParent(group_str, parent) ==
    LET g == fetch_group(groups, group_str)
        p == fetch_group(groups, parent)
        parent_group == groups[p["value"]]
        group == groups[g["value"]]
    IN  IF g["kind"] # "ok" THEN GroupsNotSaved(g, "remove-parent")
        ELSE IF p["kind"] # "ok" THEN GroupsNotSaved(p, "remove-parent")
        ELSE IF \A i \in 1..Len(parent_group["groups"]) :
                    parent_group["groups"][i]["id"] # group["id"]
        THEN GroupsNotSaved(ValueError("This group is not a subgroup of the parent group"),
                            "remove-parent")
        ELSE GroupsSaved([groups EXCEPT ![p["value"]]["groups"] =
                              SelectSeq(parent_group["groups"],
                                        LAMBDA sg : sg["id"] # group["id"])],
                         Ok(group["id"]), "remove-parent", {})

\* Library.delete_group.  `group in subgroup.groups` compares objects, so no
\* subgroup list of a loaded library holds the top-level group.
delete_group(gs, group_id) ==
    SelectSeq(gs, LAMBDA g : g["id"] # group_id)

\* cli.manage_group, action rm: delete_group(group.id) after the prompt
ManageRm(group_str, confirm) ==
    LET g == fetch_group(groups, group_str)
    IN  IF g["kind"] # "ok" THEN GroupsNotSaved(g, "rm")
        ELSE IF ~confirm THEN GroupsNotSaved(Ok(None), "rm")
        ELSE GroupsSaved(delete_group(groups, groups[g["value"]]["id"]),
                         Ok(groups[g["value"]]["id"]), "rm", {})

\* Library.__init__ on a document that holds no groups yet
InitGroups ==
    /\ doc = EmptyDoc
    /\ media_objects = <<>>
    /\ tags = <<>>
    /\ groups = <<>>
    /\ groupsDefined = TRUE
    /\ usedIds = {}
    /\ last = [op |-> "init"]

\* the -g lists a caller passes: none, or one identifier
NestedLists == { <<>> } \cup { <<g>> : g \in GroupIdentifiers }

NextGroups ==
    \/ \E name \in GroupNames \cup ForestIds(groups), nested \in NestedLists,
          confirm \in BOOLEAN, id \in GroupIdPool :
            GroupCommand(name, nested, confirm, id)
    \/ \E g \in GroupIdentifiers, p \in GroupIdentifiers : ManageSetParent(g, p)
    \/ \E g \in GroupIdentifiers, p \in GroupIdentifiers : ManageRemoveParent(g, p)
    \/ \E g \in GroupIdentifiers, confirm \in BOOLEAN : ManageRm(g, confirm)

SpecGroups == InitGroups /\ [][NextGroups]_vars

(***************************************************************************)
(* Claims about the group hierarchy.                                       *)
(***************************************************************************)

\* a group of the forest has its own id among the groups nested under it
RECURSIVE SelfNested(_)
SelfNested(gs) ==
    \E i \in 1..Len(gs) :
        \/ gs[i]["id"] \in ForestIds(gs[i]["groups"])
        \/ SelfNested(gs[i]["groups"])

\* C5: in every state the group commands (set-parent, remove-parent, group
\* with -g, rm) reach, no group is reachable from itself along groups lists.
NoGroupIsOwnAncestor == ~SelfNested(groups)

(***************************************************************************)
(* Entries and locators (src/catalog/utils.py, src/catalog/library.py,     *)
(* src/catalog/process.py).  A locator is a string; the words              *)
(* "transcripts", "speech_data" and "nodes" are single symbols of it, ids  *)
(* and numbers are spelled out character by character.                     *)
(***************************************************************************)
DecimalDigits == <<"0", "1", "2", "3", "4", "5", "6", "7", "8", "9">>

DigitVal(c) == (CHOOSE d \in 1..10 : DecimalDigits[d] = c) - 1

RECURSIVE DecVal(_)
DecVal(s) ==
    IF s = <<>> THEN 0
    ELSE 10 * DecVal(SubSeq(s, 1, Len(s) - 1)) + DigitVal(s[Len(s)])

\* int(s) for a str: an optional sign and decimal digits, else ValueError
ParseInt(s) ==
    LET signed == s # <<>> /\ s[1] \in {"-", "+"}
        body == IF signed THEN Tail(s) ELSE s
    IN  IF body # <<>> /\ \A i \in 1..Len(body) : \E d \in 1..10 : DecimalDigits[d] = body[i]
        THEN Ok(IF signed /\ s[1] = "-" THEN 0 - DecVal(body) ELSE DecVal(body))
        ELSE ValueError("invalid literal for int()")

\* str(n) for n >= 0
RECURSIVE IntToStr(_)
IntToStr(n) ==
    IF n < 10 THEN <<DecimalDigits[n + 1]>>
    ELSE IntToStr(n \div 10) \o <<DecimalDigits[(n % 10) + 1]>>

\* s.split(sep)
RECURSIVE Split(_, _)
Split(s, sep) ==
    LET IsSep(c) == c = sep
        k == FirstIdx(s, IsSep)
    IN  IF k = 0 THEN <<s>>
        ELSE <<SubSeq(s, 1, k - 1)>> \o Split(SubSeq(s, k + 1, Len(s)), sep)

\* entry ids uuid4 can hand out: two that share their first EntryPrefixLen
\* characters and begin with a digit, and one whose first EntryPrefixLen
\* characters are all digits
EntryIdPool ==
    { <<"1">> \o Tail(MkId("e", "1")),
      MkId("0", "2"),
      <<"1">> \o Tail(MkId("e", "3")) }

\* the segments the speech engine returns for a file
SegmentLists == { << <<"a">> >>, << <<"a">>, <<"b">> >> }

\* getattr(media_object, entry_type, [])
EntriesOf(media_object, entry_type) ==
    IF entry_type = <<"transcripts">> THEN media_object["transcripts"]
    ELSE IF entry_type = <<"speech_data">> THEN media_object["speech_data"]
    ELSE <<>>

\* the number of transcripts of all objects
RECURSIVE NumTranscripts(_)
NumTranscripts(objs) ==
    IF objs = <<>> THEN 0
    ELSE Len(Head(objs)["transcripts"]) + NumTranscripts(Tail(objs))

\* a variant of fetch_subtarget_entry for which -1 is just another index
\* that is out of range
fetch_subtarget_entry_no_last(media_object, entry_type, entry_id) ==
    LET entries == EntriesOf(media_object, entry_type)
        index == ParseInt(entry_id)
        IdIs(e) == StartsWith(e["id"], entry_id)
        by_id == FirstIdx(entries, IdIs)
    IN  IF index["kind"] = "ok" /\ 0 <= index["value"] /\ index["value"] < Len(entries)
        THEN Ok(index["value"] + 1)
        ELSE IF by_id # 0 THEN Ok(by_id)
        ELSE ValueError("No entry found with ID")

\* utils.fetch_subtarget_entry: the position of the entry returned.  The
\* ValueError raised for an index out of range is raised inside the try and
\* caught by its except clause, which goes on to match by id.
fetch_subtarget_entry(media_object, entry_type, entry_id) ==
    LET entries == EntriesOf(media_object, entry_type)
        index == ParseInt(entry_id)
        IdIs(e) == StartsWith(e["id"], entry_id)
        by_id == FirstIdx(entries, IdIs)
    IN  IF index["kind"] = "ok" /\ index["value"] = -1
        THEN IF entries # <<>> THEN Ok(Len(entries)) ELSE [kind |-> "None"]
        ELSE IF index["kind"] = "ok" /\ 0 <= index["value"] /\ index["value"] < Len(entries)
        THEN Ok(index["value"] + 1)
        ELSE IF by_id # 0 THEN Ok(by_id)
        ELSE ValueError("No entry found with ID")

\* Library.search._exact_search: the locator emitted for a node
Locator(media_object, entry_type, entry, index) ==
    Take(media_object["id"], ObjPrefixLen) \o <<":">> \o entry_type \o <<":">>
        \o Take(entry["id"], EntryPrefixLen) \o <<".", "nodes", ":">> \o IntToStr(index)

\* utils.update_node_content.parse_node_locator
parse_node_locator(locator) ==
    LET parts == Split(locator, ":")
        entry_id_part == parts[3]
        has_dot == \E i \in 1..Len(entry_id_part) : entry_id_part[i] = "."
        entry_parts == Split(entry_id_part, ".")
        subfield == IF has_dot THEN entry_parts[2] ELSE None
        range_given == has_dot /\ Len(entry_parts) > 2
        subfield_range ==
            IF range_given THEN entry_parts[3]
            ELSE IF subfield # <<>> THEN parts[Len(parts)]
            ELSE None
        node_index == ParseInt(subfield_range)
    IN  IF Len(parts) < 3 THEN ValueError("Invalid locator format")
        ELSE IF subfield # <<"nodes">> THEN ValueError("Invalid subfield type")
        ELSE IF subfield_range # <<>> /\ node_index["kind"] # "ok" THEN node_index
        ELSE [kind |-> "ok", media_id |-> parts[1], entry_type |-> parts[2],
              entry_id |-> entry_parts[1],
              has_node_index |-> subfield_range # <<>>,
              node_index |-> IF subfield_range # <<>> THEN node_index["value"] ELSE 0]

\* utils.update_node_content.fetch_node, after library.fetch([media_id]):
\* the positions of the object, the entry and the node it returns
fetch_node(objs, media_id, entry_type, entry_id, has_node_index, node_index) ==
    LET IdIs(o) == StartsWith(o["id"], media_id)
        at == FirstIdx(objs, IdIs)
        entry == fetch_subtarget_entry(objs[at], entry_type, entry_id)
        nodes == EntriesOf(objs[at], entry_type)[entry["value"]]["nodes"]
    IN  IF at = 0 THEN ValueError("No media object found with ID")
        ELSE IF entry["kind"] = "ValueError" THEN entry
        ELSE IF entry["kind"] = "None" THEN Raised("TypeError")
        ELSE IF ~has_node_index THEN Raised("TypeError")
        ELSE IF node_index < 0 \/ node_index >= Len(nodes) THEN Raised("IndexError")
        ELSE Ok([object |-> at, entry |-> entry["value"], node |-> node_index])

\* process.transcribe on an object of the library, and the save_library of
\* the command that called it
Transcribe(i, new_id, segments) ==
    LET transcription == [id |-> new_id, tags |-> <<>>,
                          nodes |-> [k \in 1..Len(segments) |-> [content |-> segments[k]]]]
        objs == [media_objects EXCEPT ![i]["transcripts"] = Append(@, transcription)]
    IN  /\ new_id \notin usedIds
        /\ NumTranscripts(media_objects) < MaxEntries
        /\ media_objects' = objs
        /\ doc' = SavedDoc(objs, tags, groups)
        /\ usedIds' = usedIds \cup {new_id}
        /\ last' = [op |-> "transcribe", out |-> Ok(new_id)]
        /\ UNCHANGED <<tags, groups, groupsDefined>>

\* a call of fetch_subtarget_entry on object i
FetchSubtargetEntry(i, entry_type, entry_id) ==
    /\ last' = [op |-> "fetch_subtarget_entry", object |-> i, entry_type |-> entry_type,
                entry_id |-> entry_id,
                out |-> fetch_subtarget_entry(media_objects[i], entry_type, entry_id)]
    /\ UNCHANGED <<media_objects, tags, groups, groupsDefined, doc, usedIds>>

\* the locator search emits for node n of entry j of object i, parsed and
\* resolved as update_node_content does
FetchNode(i, entry_type, j, n) ==
    LET locator == Locator(media_objects[i], entry_type,
                           EntriesOf(media_objects[i], entry_type)[j], n)
        p == parse_node_locator(locator)
    IN  /\ last' = [op |-> "fetch_node", object |-> i, entry_type |-> entry_type,
                    entry |-> j, node |-> n, locator |-> locator,
                    out |-> IF p["kind"] # "ok" THEN p
                            ELSE fetch_node(media_objects, p["media_id"], p["entry_type"],
                                            p["entry_id"], p["has_node_index"],
                                            p["node_index"])]
        /\ UNCHANGED <<media_objects, tags, groups, groupsDefined, doc, usedIds>>

EntryTypes == { <<"transcripts">>, <<"speech_data">> }

\* entry ids callers pass: integers as text, ids, id prefixes, and a string
\* that begins no id
EntryTargets ==
    { <<"-", "1">>, <<"-", "2">>, <<"0">>, <<"1">>, <<"2">>, <<"z">> }
    \cup EntryIdPool
    \cup { Take(id, EntryPrefixLen) : id \in EntryIdPool }

\* a library loaded from a document that holds video objects without
\* transcripts
InitEntries ==
    /\ media_objects = [i \in 1..NumObjIds |->
            NewObject(MkId("c", Digits[i]), "Video",
                      [kind |-> "file", ext |-> ".mp4", content |-> i])]
    /\ tags = <<>>
    /\ groups = <<>>
    /\ groupsDefined = TRUE
    /\ doc = SavedDoc(media_objects, tags, groups)
    /\ usedIds = ObjIdPool
    /\ last = [op |-> "init"]

NextEntries ==
    \/ \E i \in 1..Len(media_objects), id \in EntryIdPool, segments \in SegmentLists :
            Transcribe(i, id, segments)
    \/ \E i \in 1..Len(media_objects), entry_type \in EntryTypes, entry_id \in EntryTargets :
            FetchSubtargetEntry(i, entry_type, entry_id)
    \/ \E i \in 1..Len(media_objects), entry_type \in EntryTypes :
         \E j \in 1..Len(EntriesOf(media_objects[i], entry_type)) :
           \E n \in 0..(Len(EntriesOf(media_objects[i], entry_type)[j]["nodes"]) - 1) :
            FetchNode(i, entry_type, j, n)

SpecEntries == InitEntries /\ [][NextEntries]_vars

(***************************************************************************)
(* Claims about entries and locators.                                      *)
(***************************************************************************)

\* C6: the locator search emits for node n of entry j of object i resolves,
\* through parse_node_locator, fetch, fetch_subtarget_entry and the node
\* lookup, to that node of that entry of that object.
LocatorRoundTrip ==
    last["op"] = "fetch_node"
    => last["out"] = Ok([object |-> last["object"], entry |-> last["entry"],
                         node |-> last["node"]])

\* C7: fetch_subtarget_entry returns no entry when entry_id is an integer
\* that is not a position of the entry list (and not -1 on a non-empty list),
\* or a string that begins no entry id.
FetchSubtargetEntryFails ==
    last["op"] = "fetch_subtarget_entry"
    => LET entries == EntriesOf(media_objects[last["object"]], last["entry_type"])
           index == ParseInt(last["entry_id"])
           out_of_range ==
               /\ index["kind"] = "ok"
               /\ \/ index["value"] < -1
                  \/ index["value"] >= Len(entries)
                  \/ entries = <<>>
           no_prefix ==
               /\ index["kind"] # "ok"
               /\ \A k \in 1..Len(entries) : ~StartsWith(entries[k]["id"], last["entry_id"])
       IN  (out_of_range \/ no_prefix) => last["out"]["kind"] # "ok"

\* C8: on a non-empty entry list fetch_subtarget_entry returns the last
\* entry for -1, the entry at position n for an integer 0 <= n < length,
\* and for a string that is not an integer the first entry whose id starts
\* with it.
FetchSubtargetEntryReturns ==
    last["op"] = "fetch_subtarget_entry"
    => LET entries == EntriesOf(media_objects[last["object"]], last["entry_type"])
           index == ParseInt(last["entry_id"])
           starts == {k \in 1..Len(entries) : StartsWith(entries[k]["id"], last["entry_id"])}
       IN  entries # <<>> =>
             /\ (index["kind"] = "ok" /\ index["value"] = -1)
                    => last["out"] = Ok(Len(entries))
             /\ (index["kind"] = "ok" /\ 0 <= index["value"] /\ index["value"] < Len(entries))
                    => last["out"] = Ok(index["value"] + 1)
             /\ (index["kind"] # "ok" /\ starts # {})
                    => /\ last["out"]["kind"] = "ok"
                       /\ last["out"]["value"] \in starts
                       /\ \A k \in starts : last["out"]["value"] <= k

\* C8 happens: -1 is asked of an object with two transcripts and the second
\* one is returned
FetchLastOfTwo ==
    /\ last["op"] = "fetch_subtarget_entry"
    /\ last["entry_id"] = <<"-", "1">>
    /\ Len(EntriesOf(media_objects[last["object"]], last["entry_type"])) = 2
    /\ last["out"] = Ok(2)

(***************************************************************************)
(* Loading a library from its document (src/catalog/library.py).           *)
(***************************************************************************)
\* os.path.isfile(file_path): the temporary directory import_url downloads
\* into is removed when import_url returns; source and datastore files stay
FileExists(file_path) == file_path[1] # "tmp"

\* the metadata of an object, as one record
Metadata(o) ==
    [url |-> o["url"], tags |-> o["tags"],
     date_created |-> o["date_created"], date_modified |-> o["date_modified"]]

\* Library.deserialize_object.  The class is constructed on the stored
\* file_path (Chat is constructed without one), the metadata loop turns the
\* date texts into datetime values, and the closing loop over
\* serialized_data then assigns every key the object has as an attribute,
\* `metadata` among them: the object ends with the stored metadata record.
deserialize_object(serialized_data) ==
    LET constructed_on_file == serialized_data["class_name"] # "Chat"
        converted ==
            [serialized_data["metadata"] EXCEPT
                !["date_created"] = FromIsoFormat(@),
                !["date_modified"] = FromIsoFormat(@)]
        after_setattr ==
            IF "metadata" \in DOMAIN serialized_data
            THEN serialized_data["metadata"] ELSE converted
    IN  IF constructed_on_file /\ ~FileExists(serialized_data["file_path"])
        THEN Raised("FileNotFoundError")
        ELSE Ok([id |-> serialized_data["id"],
                 class_name |-> serialized_data["class_name"],
                 md5_hash |-> serialized_data["md5_hash"],
                 file_path |-> serialized_data["file_path"],
                 url |-> after_setattr["url"],
                 date_created |-> after_setattr["date_created"],
                 date_modified |-> after_setattr["date_modified"],
                 tags |-> after_setattr["tags"],
                 transcripts |-> serialized_data["transcripts"],
                 speech_data |-> serialized_data["speech_data"]])

\* Library.__init__ and load_library in a new process
\* deserialize_group: self.fetch(group_data["objects"]) finds every id, in the
\* group and in its subgroups
RECURSIVE GroupObjectsFetched(_, _)
GroupObjectsFetched(objs, groups_data) ==
    \A g \in 1..Len(groups_data) :
        /\ \A i \in 1..Len(groups_data[g]["objects"]) :
               \E k \in 1..Len(objs) :
                   StartsWith(objs[k]["id"], groups_data[g]["objects"][i])
        /\ GroupObjectsFetched(objs, groups_data[g]["groups"])

LoadLibrary ==
    LET loaded == [i \in 1..Len(doc["media_objects"]) |->
                      deserialize_object(doc["media_objects"][i])]
        objs == [i \in 1..Len(loaded) |-> loaded[i]["value"]]
    IN  IF doc = NoDoc
        THEN /\ media_objects' = <<>>
             /\ tags' = <<>>
             /\ groups' = <<>>
             /\ groupsDefined' = FALSE
             /\ last' = [op |-> "load_library", out |-> Ok(None)]
             /\ UNCHANGED <<doc, usedIds>>
        ELSE IF \E i \in 1..Len(loaded) : loaded[i]["kind"] # "ok"
        THEN \* the exception leaves __init__: no Library is made
             /\ last' = [op |-> "load_library", out |-> Raised("FileNotFoundError")]
             /\ UNCHANGED <<media_objects, tags, groups, groupsDefined, doc, usedIds>>
        ELSE IF ~GroupObjectsFetched(objs, doc["groups"])
        THEN \* Library.fetch raises inside deserialize_group: no Library is made
             /\ last' = [op |-> "load_library", out |-> Raised("ValueError")]
             /\ UNCHANGED <<media_objects, tags, groups, groupsDefined, doc, usedIds>>
        ELSE /\ media_objects' = objs
             /\ tags' = doc["tags"]
             /\ groups' = LoadedGroups(objs, doc)
             /\ groupsDefined' = TRUE
             /\ last' = [op |-> "load_library", out |-> Ok(None)]
             /\ UNCHANGED <<doc, usedIds>>

NextLoad == NextImport \/ LoadLibrary

SpecLoad == InitImport /\ [][NextLoad]_vars

\* C11: deserialize_object(serialize_object(obj)) gives an object with the
\* id, metadata (same values of the same kind), transcripts, speech_data and
\* md5_hash of obj, for every object of the library.
SerializationRoundTrip ==
    \A i \in 1..Len(media_objects) :
        LET obj == media_objects[i]
            back == deserialize_object(serialize_object(obj))
        IN  /\ back["kind"] = "ok"
            /\ back["value"]["id"] = obj["id"]
            /\ Metadata(back["value"]) = Metadata(obj)
            /\ back["value"]["transcripts"] = obj["transcripts"]
            /\ back["value"]["speech_data"] = obj["speech_data"]
            /\ back["value"]["md5_hash"] = obj["md5_hash"]

(***************************************************************************)
(* Tags on groups (src/catalog/cli.py, src/catalog/library.py).  As for    *)
(* the group commands, every command loads the document, acts and saves.   *)
(***************************************************************************)
\* delete_tag: "unassign from groups", the loop over self.groups
StripGroups(gs, tag_id) ==
    [i \in 1..Len(gs) |-> [gs[i] EXCEPT !["tags"] = RemoveFirst(@, tag_id)]]

\* delete_tag: "unassign from objects"
StripObjects(objs, tag_id) ==
    [i \in 1..Len(objs) |->
        [objs[i] EXCEPT !["tags"] = StripAssignments(@, tag_id),
                        !["transcripts"] = StripEntries(@, tag_id),
                        !["speech_data"] = StripEntries(@, tag_id)]]

\* the number of tag assignments in a forest, nested groups included
RECURSIVE ForestTagCount(_)
ForestTagCount(gs) ==
    IF gs = <<>> THEN 0
    ELSE Len(Head(gs)["tags"]) + ForestTagCount(Head(gs)["groups"])
         + ForestTagCount(Tail(gs))

\* what a command leaves behind when it saved
CommandSaved(objs, ts, gs, result, new_ids) ==
    /\ ForestSize(gs) <= MaxGroupNodes
    /\ ForestTagCount(gs) <= MaxGroupTags
    /\ new_ids \cap usedIds = {}
    /\ media_objects' = objs
    /\ tags' = ts
    /\ doc' = SavedDoc(objs, ts, gs)
    /\ groups' = LoadedGroups(objs, SavedDoc(objs, ts, gs))
    /\ usedIds' = usedIds \cup new_ids
    /\ last' = result
    /\ UNCHANGED groupsDefined

\* what a command leaves behind when it ended before saving
CommandNotSaved(result) ==
    /\ last' = result
    /\ UNCHANGED <<media_objects, tags, groups, groupsDefined, doc, usedIds>>

\* cli.tag_command with --create and no parent: create_tag, save_library.
\* The ValueError of create_tag is not caught on this path.
TagCreateCommand(name, new_id) ==
    IF TagNameExists(tags, name)
    THEN CommandNotSaved([op |-> "tag_create", out |-> ValueError("Tag already exists")])
    ELSE CommandSaved(media_objects,
                      Append(tags, [id |-> new_id, name |-> name, parents |-> <<>>]),
                      groups, [op |-> "tag_create", out |-> Ok(None)], {new_id})

\* cli.tag_command on a target "group:<identifier>": tag_group or
\* untag_group on the group fetch_group finds, then save_library
TagGroupCommand(group_id, tag_str, remove) ==
    LET g == fetch_group(groups, group_id)
        t == get_tag_id(tags, tag_str)
        group == groups[g["value"]]
        tag_id == t["value"]
        assigned == \E k \in 1..Len(group["tags"]) : group["tags"][k] = tag_id
        new_tags == IF remove THEN RemoveFirst(group["tags"], tag_id)
                    ELSE IF assigned THEN group["tags"]
                    ELSE Append(group["tags"], tag_id)
    IN  IF g["kind"] # "ok" THEN CommandNotSaved([op |-> "tag_group", out |-> g])
        ELSE IF t["kind"] # "ok" THEN CommandNotSaved([op |-> "tag_group", out |-> t])
        ELSE CommandSaved(media_objects, tags,
                          [groups EXCEPT ![g["value"]]["tags"] = new_tags],
                          [op |-> "tag_group", out |-> Ok(None)], {})

\* cli.manage_tag, action rm: delete_tag and save_library after the prompt
ManageTagRm(tag_str, confirm) ==
    LET t == get_tag_id(tags, tag_str)
        tag_id == t["value"]
    IN  IF t["kind"] # "ok" THEN CommandNotSaved([op |-> "tag_rm", out |-> t])
        ELSE IF ~confirm THEN CommandNotSaved([op |-> "tag_rm", out |-> [kind |-> "declined"]])
        ELSE CommandSaved(StripObjects(media_objects, tag_id),
                          SelectSeq(tags, LAMBDA tg : tg["id"] # tag_id),
                          StripGroups(groups, tag_id),
                          [op |-> "tag_rm", out |-> Ok(tag_id)], {})

\* tag names the callers of these commands use
GroupTagNames == { <<"w">>, <<"m">> }

NextGroupTags ==
    \/ \E name \in GroupNames, nested \in { <<>> } \cup { <<g>> : g \in GroupNames },
          id \in GroupIdPool :
            /\ GroupCommand(name, nested, TRUE, id)
            /\ ForestSize(groups') <= MaxTaggedNodes
    \/ \E name \in GroupTagNames, id \in TagIdPool : TagCreateCommand(name, id)
    \/ \E g \in GroupNames, t \in GroupTagNames, remove \in BOOLEAN :
            TagGroupCommand(g, t, remove)
    \/ \E t \in GroupTagNames, confirm \in BOOLEAN : ManageTagRm(t, confirm)

SpecGroupTags == InitGroups /\ [][NextGroupTags]_vars

\* the tag ids assigned to the groups of a forest, nested ones included
RECURSIVE ForestTags(_)
ForestTags(gs) ==
    IF gs = <<>> THEN {}
    ELSE {Head(gs)["tags"][k] : k \in 1..Len(Head(gs)["tags"])}
         \cup ForestTags(Head(gs)["groups"]) \cup ForestTags(Tail(gs))

\* a forest with every assignment of tag_id taken out, at every depth
RECURSIVE WithoutTag(_, _)
WithoutTag(gs, tag_id) ==
    [i \in 1..Len(gs) |->
        [gs[i] EXCEPT !["tags"] = SelectSeq(@, LAMBDA x : x # tag_id),
                      !["groups"] = WithoutTag(@, tag_id)]]

\* the tag ids assigned to objects and to their entries
ObjectTags(objs) ==
    UNION { {objs[i]["tags"][k]["id"] : k \in 1..Len(objs[i]["tags"])}
            \cup UNION { {objs[i][f][j]["tags"][k]["id"] :
                              k \in 1..Len(objs[i][f][j]["tags"])} :
                         f \in {"transcripts", "speech_data"},
                         j \in 1..Len(objs[i]["transcripts"]) \cup 1..Len(objs[i]["speech_data"]) }
            : i \in 1..Len(objs) }

\* C12: after delete_tag(id) the tag set does not hold id, no object, entry
\* or group at any depth carries id, and every other assignment is as it was.
DeleteTagStripsEverywhere ==
    [][(last'["op"] = "tag_rm" /\ last'["out"]["kind"] = "ok")
       => /\ last'["out"]["value"] \notin TagIds(tags')
          /\ last'["out"]["value"] \notin ForestTags(groups')
          /\ groups' = WithoutTag(groups, last'["out"]["value"])
          /\ media_objects' = StripObjects(media_objects, last'["out"]["value"])]_vars

(***************************************************************************)
(* speech.py: parse_sexp.  The value sexpdata.loads returns is a tree: an   *)
(* atom (a Symbol or a string) or a list of trees.                          *)
(***************************************************************************)
MaxSections == 2
MaxSectionNodes == 2

SexpAtom(t) == [atom |-> TRUE, text |-> t, items |-> <<>>]
SexpList(items) == [atom |-> FALSE, text |-> "", items |-> items]

\* the nodes a section may hold: a bare atom, a list with a nested list, and
\* the empty list, whose node[0] raises IndexError
SexpNodes ==
    { SexpAtom("a"),
      SexpList(<<SexpAtom("a"), SexpList(<<SexpAtom("b"), SexpAtom("c")>>),
                 SexpAtom("d")>>),
      SexpList(<<>>) }

SeqsUpTo(S, n) == UNION {[1..k -> S] : k \in 0..n}

\* (section "s" node...), and a section without a label, whose section[1]
\* raises IndexError
SexpSections ==
    { SexpList(<<SexpAtom("section"), SexpAtom("s")>> \o body) :
          body \in SeqsUpTo(SexpNodes, MaxSectionNodes) }
    \cup { SexpList(<<SexpAtom("section")>>) }

\* (transcript section...)
SexpDocs ==
    { SexpList(<<SexpAtom("transcript")>> \o secs) :
          secs \in SeqsUpTo(SexpSections, MaxSections) }

\* nodes.append({"index": node_index, "text": ..., "parent": parent_index})
\* with node_index = len(nodes); parent None is has_parent = FALSE
NodeRecordOneBased(nodes, text, has_parent, parent) ==
    [index |-> Len(nodes) + 1, text |-> text,
     has_parent |-> has_parent, parent |-> parent]

NodeRecord(nodes, text, has_parent, parent) ==
    [index |-> Len(nodes), text |-> text,
     has_parent |-> has_parent, parent |-> parent]

RECURSIVE process_node(_, _, _, _)
RECURSIVE process_subnodes(_, _, _, _)

\* for subnode in node[1:]: process_node(subnode, node_index)
process_subnodes(acc, subnodes, has_parent, parent) ==
    IF subnodes = <<>> THEN acc
    ELSE process_subnodes(process_node(acc, Head(subnodes), has_parent, parent),
                          Tail(subnodes), has_parent, parent)

\* acc = [ok, nodes]: the nodes list so far, ok = FALSE once IndexError is raised
process_node(acc, node, has_parent, parent) ==
    IF ~acc["ok"] THEN acc
    ELSE IF node["atom"]
    THEN [ok |-> TRUE,
          nodes |-> Append(acc["nodes"],
                           NodeRecord(acc["nodes"], node, has_parent, parent))]
    ELSE IF node["items"] = <<>>
    THEN [ok |-> FALSE, nodes |-> acc["nodes"]]
    ELSE process_subnodes(
             [ok |-> TRUE,
              nodes |-> Append(acc["nodes"],
                               NodeRecord(acc["nodes"], node["items"][1],
                                          has_parent, parent))],
             Tail(node["items"]), TRUE, Len(acc["nodes"]))

RECURSIVE process_sections(_, _)

\* for section in sexp[1:]: acc = [ok, sections, nodes]
process_sections(acc, sections) ==
    IF sections = <<>> \/ ~acc["ok"] THEN acc
    ELSE
      LET section == Head(sections)
      IN  IF section["atom"] \/ Len(section["items"]) < 2
          THEN [acc EXCEPT !["ok"] = FALSE]
          ELSE
            LET label == section["items"][2]
                start_index == Len(acc["nodes"])
                body == process_subnodes([ok |-> TRUE, nodes |-> acc["nodes"]],
                                         SubSeq(section["items"], 3,
                                                Len(section["items"])),
                                         FALSE, 0)
                end_index == Len(body["nodes"]) - 1
            IN  process_sections(
                    [ok |-> body["ok"],
                     sections |-> Append(acc["sections"],
                                         [label |-> label,
                                          indeces |-> <<start_index, end_index>>]),
                     nodes |-> body["nodes"]],
                    Tail(sections))

parse_sexp(sexp) ==
    LET r == process_sections([ok |-> TRUE, sections |-> <<>>, nodes |-> <<>>],
                              Tail(sexp["items"]))
    IN  IF r["ok"]
        THEN Ok([sections |-> r["sections"], nodes |-> r["nodes"]])
        ELSE Raised("IndexError")

\* parse_sexp applied to the document the simulator returned
ParseSexp ==
    /\ last["op"] = "loads"
    /\ last' = [op |-> "parse_sexp", sexp |-> last["sexp"],
                out |-> parse_sexp(last["sexp"])]
    /\ UNCHANGED <<media_objects, tags, groups, groupsDefined, doc, usedIds>>

InitSexp ==
    /\ media_objects = <<>>
    /\ tags = <<>>
    /\ groups = <<>>
    /\ groupsDefined = FALSE
    /\ doc = NoDoc
    /\ usedIds = {}
    /\ last \in {[op |-> "loads", sexp |-> d] : d \in SexpDocs}

NextSexp == ParseSexp

SpecSexp == InitSexp /\ [][NextSexp]_vars

Parsed == last["op"] = "parse_sexp" /\ last["out"]["kind"] = "ok"

\* C13: for every document parse_sexp accepts, each section's (start, end)
\* satisfies 0 <= start <= end < number of nodes, and the ranges of any two
\* sections are disjoint
SectionRangesValid ==
    Parsed =>
      LET out == last["out"]["value"]
          n == Len(out["nodes"])
          secs == out["sections"]
      IN  /\ \A i \in 1..Len(secs) :
                /\ 0 <= secs[i]["indeces"][1]
                /\ secs[i]["indeces"][1] <= secs[i]["indeces"][2]
                /\ secs[i]["indeces"][2] < n
          /\ \A i, j \in 1..Len(secs) :
                i # j =>
                  (secs[i]["indeces"][1]..secs[i]["indeces"][2])
                    \cap (secs[j]["indeces"][1]..secs[j]["indeces"][2]) = {}

RECURSIVE PreOrder(_)
RECURSIVE PreOrderAll(_)

\* the texts of a node and of its subnodes, depth first in document order
PreOrderAll(ns) ==
    IF ns = <<>> THEN <<>> ELSE PreOrder(Head(ns)) \o PreOrderAll(Tail(ns))

PreOrder(node) ==
    IF node["atom"] THEN <<node>>
    ELSE <<node["items"][1]>> \o PreOrderAll(Tail(node["items"]))

RECURSIVE DocOrder(_)
DocOrder(sections) ==
    IF sections = <<>> THEN <<>>
    ELSE PreOrderAll(SubSeq(Head(sections)["items"], 3,
                            Len(Head(sections)["items"])))
           \o DocOrder(Tail(sections))

\* C14: the k-th element of nodes has index k, in depth-first document order,
\* and every non-null parent is the index of a strictly earlier node
NodesDenseAndParentsEarlier ==
    Parsed =>
      LET nodes == last["out"]["value"]["nodes"]
      IN  /\ \A k \in 1..Len(nodes) :
                /\ nodes[k]["index"] = k - 1
                /\ nodes[k]["has_parent"] =>
                      /\ 0 <= nodes[k]["parent"]
                      /\ nodes[k]["parent"] < nodes[k]["index"]
          /\ [k \in 1..Len(nodes) |-> nodes[k]["text"]]
                = DocOrder(Tail(last["sexp"]["items"]))

\* a parsed document with a node whose parent has a parent itself
ParsedNestedNode ==
    /\ Parsed
    /\ \E k \in 1..Len(last["out"]["value"]["nodes"]) :
          LET nodes == last["out"]["value"]["nodes"]
          IN  /\ nodes[k]["has_parent"]
              /\ nodes[nodes[k]["parent"] + 1]["has_parent"]
              /\ nodes[k]["index"] > 2

(***************************************************************************)
(* Group.add_objects, reached through `catalog group NAME IDS...`.  A group *)
(* holds its objects by reference; the model keeps their ids.              *)
(***************************************************************************)

\* an object as MediaObject.__init__ leaves its dates: date_stored is the
\* reading of datetime.now() (its isoformat text orders as the reading does),
\* date_recorded is set by no code and reads as None
StoredObject(id, src, stored) ==
    NewObject(id, "Video", src)
        @@ [date_recorded |-> NoDate, date_stored |-> stored]

\* a variant of fetch that takes the last object whose id starts with id
fetch_last(objs, id) ==
    LET S == {i \in 1..Len(objs) : StartsWith(objs[i]["id"], id)}
    IN  IF S = {} THEN 0 ELSE CHOOSE i \in S : \A j \in S : j <= i

\* Library.fetch: the position of the first object whose id starts with id,
\* 0 where the code raises ValueError
fetch(objs, id) ==
    LET Is(o) == StartsWith(o["id"], id)
    IN  FirstIdx(objs, Is)

\* key=lambda x: (x.metadata.get("date_recorded"), x.metadata.get("date_stored"))
\* compared as Python compares tuples whose first items are equal
KeyLeq(a, b) ==
    /\ a["date_recorded"] = b["date_recorded"]
    /\ a["date_stored"] <= b["date_stored"]

\* list.sort(key=...) on a list of object ids: stable, ascending
RECURSIVE SortByDates(_, _)
SortByDates(objs, s) ==
    IF s = <<>> THEN <<>>
    ELSE LET IsMin(id) == \A i \in 1..Len(s) :
                              KeyLeq(objs[fetch(objs, id)], objs[fetch(objs, s[i])])
             k == FirstIdx(s, IsMin)
         IN  <<s[k]>> \o SortByDates(objs, SubSeq(s, 1, k - 1)
                                             \o SubSeq(s, k + 1, Len(s)))

\* [obj for obj in objects if obj not in self.objects]
NewObjects(group, objects) ==
    SelectSeq(objects,
              LAMBDA id : \A i \in 1..Len(group["objects"]) : group["objects"][i] # id)

add_objects_unsorted(objs, group, objects) ==
    [group EXCEPT !["objects"] = @ \o NewObjects(group, objects)]

\* Group.add_objects
add_objects(objs, group, objects) ==
    IF NewObjects(group, objects) # <<>>
    THEN [group EXCEPT !["objects"] =
              SortByDates(objs, @ \o NewObjects(group, objects))]
    ELSE group

\* cli.group_command with object ids and no -g: `catalog group NAME IDS...`
GroupObjectsCommand(name, ids, new_id) ==
    LET found == fetch_group(groups, name)
        creates == found["kind"] # "ok"
        gs == IF creates THEN Append(groups, NewGroup(new_id, name)) ELSE groups
        at == IF creates THEN Len(gs) ELSE found["value"]
        objects == [i \in 1..Len(ids) |->
                        media_objects[fetch(media_objects, ids[i])]["id"]]
    IN  IF \E i \in 1..Len(ids) : fetch(media_objects, ids[i]) = 0
        THEN \* Library.fetch raises; nothing catches it
             GroupsNotSaved(Raised("ValueError"), "group")
        ELSE GroupsSaved([gs EXCEPT ![at] = add_objects(media_objects, gs[at], objects)],
                         Ok(NewObjects(gs[at], objects)), "group",
                         IF creates THEN {new_id} ELSE {})

\* the ids a caller names objects by: whole ids, the prefix every object id
\* starts with, and an id no object has
ObjIdentifiers == ObjIdPool \cup { <<"c">>, <<"x">> }

\* the id lists of a call: one id, or a whole id followed by a second id that
\* may resolve to the same object
IdLists == { <<a>> : a \in ObjIdentifiers }
              \cup { <<a, b>> : a \in ObjIdPool, b \in ObjIdPool \cup { <<"c">> } }

\* a library of objects imported one after the other, and no group yet
InitGroupObjects ==
    /\ \E stored \in [1..NumObjIds -> 1..NumObjIds] :
          /\ \A i, j \in 1..NumObjIds : i <= j => stored[i] <= stored[j]
          /\ media_objects = [i \in 1..NumObjIds |->
                StoredObject(MkId("c", Digits[i]),
                             [kind |-> "file", ext |-> ".mp4", content |-> i],
                             stored[i])]
    /\ tags = <<>>
    /\ groups = <<>>
    /\ groupsDefined = TRUE
    /\ usedIds = {}
    /\ doc = SavedDoc(media_objects, <<>>, <<>>)
    /\ last = [op |-> "init"]

NextGroupObjects ==
    \E name \in { <<"w">> }, ids \in IdLists, id \in GroupIdPool :
        GroupObjectsCommand(name, ids, id)

SpecGroupObjects == InitGroupObjects /\ [][NextGroupObjects]_vars

\* C15: after any sequence of add_objects calls a group's objects list
\* contains each media object at most once
GroupObjectsUnique ==
    \A g \in 1..Len(groups) :
        \A i, j \in 1..Len(groups[g]["objects"]) :
            i # j => groups[g]["objects"][i] # groups[g]["objects"][j]

\* C16: after any sequence of add_objects calls a group's objects list is
\* sorted ascending by (date_recorded, date_stored)
GroupObjectsSorted ==
    \A g \in 1..Len(groups) :
        \A i, j \in 1..Len(groups[g]["objects"]) :
            i < j => KeyLeq(media_objects[fetch(media_objects, groups[g]["objects"][i])],
                            media_objects[fetch(media_objects, groups[g]["objects"][j])])

\* the object just added sits before an object added by an earlier call
AddedObjectSortedToFront ==
    /\ last["op"] = "group"
    /\ last["out"]["kind"] = "ok"
    /\ \E g \in 1..Len(groups) :
          LET objects == groups[g]["objects"]
          IN  /\ Len(objects) = 2
              /\ last["out"]["value"] = <<objects[1]>>
              /\ media_objects[fetch(media_objects, objects[1])]["date_stored"]
                   < media_objects[fetch(media_objects, objects[2])]["date_stored"]

(***************************************************************************)
(* cli.query_command on a locator, with --debug: the indices to be fetched. *)
(***************************************************************************)

Contains(s, c) == \E i \in 1..Len(s) : s[i] = c

\* cli.query_command, the parse of a target that names no group and no tag.
\* A value that may be None comes with a flag telling whether it is set.
ParseTarget(target) ==
    LET parts == Split(target, ":")
        property_set == Len(parts) > 1
        entry_id_set == Len(parts) > 2
        entry_id_part == IF entry_id_set THEN parts[3] ELSE None
        has_dot == entry_id_part # <<>> /\ Contains(entry_id_part, ".")
        entry_parts == Split(entry_id_part, ".")
        subfield == IF has_dot THEN entry_parts[2] ELSE None
        range_in_entry == has_dot /\ Len(entry_parts) > 2
        range_from_tail ==
            subfield # <<>> /\ ~range_in_entry /\ Contains(target, ":")
    IN  [media_id |-> parts[1],
         property_set |-> property_set,
         property |-> IF property_set THEN parts[2] ELSE None,
         entry_id_set |-> entry_id_set,
         entry_id |-> IF has_dot THEN entry_parts[1] ELSE entry_id_part,
         subfield_set |-> has_dot,
         subfield |-> subfield,
         range_set |-> range_in_entry \/ range_from_tail,
         subfield_range |-> IF range_in_entry THEN entry_parts[3]
                            ELSE IF range_from_tail THEN parts[Len(parts)]
                            ELSE None]

\* cli.query_command under --debug: the indices named by subfield_range for a
\* subfield of n elements
DebugIndices(subfield_range, n) ==
    IF subfield_range # <<>>
    THEN IF Contains(subfield_range, "-")
         THEN LET bounds == Split(subfield_range, "-")
                  ints == [k \in 1..Len(bounds) |-> ParseInt(bounds[k])]
              IN  IF \E k \in 1..Len(ints) : ints[k]["kind"] # "ok"
                  THEN Raised("ValueError")
                  ELSE IF Len(ints) # 2 THEN Raised("ValueError")
                  ELSE Ok([k \in 1..(IF ints[2]["value"] >= ints[1]["value"]
                                     THEN ints[2]["value"] - ints[1]["value"] + 1
                                     ELSE 0) |-> ints[1]["value"] + k - 1])
         ELSE IF ParseInt(subfield_range)["kind"] # "ok" THEN Raised("ValueError")
         ELSE Ok(<<ParseInt(subfield_range)["value"]>>)
    ELSE Ok([k \in 1..n |-> k - 1])

\* the range part of a locator: none, one index, or start-end
RangeShapes ==
    { [kind |-> "none", start |-> 0, end |-> 0] }
    \cup { [kind |-> "index", start |-> k, end |-> k] : k \in 0..1 }
    \cup { [kind |-> "span", start |-> a, end |-> b] : a \in 0..1, b \in 1..2 }

\* media_id:entry_type:entry_id.nodes[:range], with the id prefixes search
\* puts into the locators it emits
LocatorOfShape(media_object, entry_type, entry, shape) ==
    Take(media_object["id"], ObjPrefixLen) \o <<":">> \o entry_type \o <<":">>
        \o Take(entry["id"], EntryPrefixLen) \o <<".", "nodes">>
        \o (IF shape["kind"] = "none" THEN <<>>
            ELSE IF shape["kind"] = "index" THEN <<":">> \o IntToStr(shape["start"])
            ELSE <<":">> \o IntToStr(shape["start"]) \o <<"-">> \o IntToStr(shape["end"]))

\* `catalog query TARGET --debug` for the locator of entry j of object i
QueryDebug(i, entry_type, j, shape) ==
    LET target == LocatorOfShape(media_objects[i], entry_type,
                                 EntriesOf(media_objects[i], entry_type)[j], shape)
        p == ParseTarget(target)
        at == fetch(media_objects, p["media_id"])
        entry == fetch_subtarget_entry(media_objects[at], p["property"], p["entry_id"])
        nodes == EntriesOf(media_objects[at], p["property"])[entry["value"]]["nodes"]
    IN  /\ last' = [op |-> "query", object |-> i, entry_type |-> entry_type,
                    entry |-> j, shape |-> shape, parsed |-> p,
                    out |-> IF at = 0 THEN Raised("ValueError")
                            ELSE IF entry["kind"] = "ValueError" THEN Raised("ValueError")
                            ELSE IF entry["kind"] = "None" THEN Ok(None)
                            ELSE DebugIndices(p["subfield_range"], Len(nodes))]
        /\ UNCHANGED <<media_objects, tags, groups, groupsDefined, doc, usedIds>>

NextQuery ==
    \/ \E i \in 1..Len(media_objects), id \in EntryIdPool, segments \in SegmentLists :
            Transcribe(i, id, segments)
    \/ \E i \in 1..Len(media_objects), entry_type \in EntryTypes :
         \E j \in 1..Len(EntriesOf(media_objects[i], entry_type)), shape \in RangeShapes :
            QueryDebug(i, entry_type, j, shape)

SpecQuery == InitEntries /\ [][NextQuery]_vars

\* C17: parsing a locator yields its media_id, entry_type, entry_id, subfield
\* and range for every shape of the grammar: without a range the range is
\* absent and all nodes of the entry are addressed, a single integer
\* addresses that index, start-end addresses start through end inclusive
LocatorShapesParsed ==
    last["op"] = "query"
    => LET o == media_objects[last["object"]]
           e == EntriesOf(o, last["entry_type"])[last["entry"]]
           p == last["parsed"]
           shape == last["shape"]
           found == fetch_subtarget_entry(o, last["entry_type"],
                                          Take(e["id"], EntryPrefixLen))
       IN  /\ p["media_id"] = Take(o["id"], ObjPrefixLen)
           /\ p["property"] = last["entry_type"]
           /\ p["entry_id"] = Take(e["id"], EntryPrefixLen)
           /\ p["subfield"] = <<"nodes">>
           /\ p["range_set"] = (shape["kind"] # "none")
           /\ found["kind"] = "ok" =>
                last["out"] =
                  Ok(IF shape["kind"] = "none"
                     THEN [k \in 1..Len(EntriesOf(o, last["entry_type"])
                                           [found["value"]]["nodes"]) |-> k - 1]
                     ELSE [k \in 1..(shape["end"] - shape["start"] + 1) |->
                              shape["start"] + k - 1])

(***************************************************************************)
(* Tag assignments of objects and entries: tag_object, untag_object,        *)
(* tag_entry, untag_entry, reached through `catalog tag TARGET TAG [-r]`.   *)
(***************************************************************************)

\* {"id": tag_id, "date_assigned": datetime.now().isoformat(), "source": source}
TagData(tag_id) ==
    [id |-> tag_id, date_assigned |-> IsoFormat(Datetime("now")), source |-> "user"]

\* any(tag_id == tag["id"] for tag in ...)
TagAssigned(assigned, tag_id) ==
    \E k \in 1..Len(assigned) : assigned[k]["id"] = tag_id

\* a variant of tag_object without the tag_exists test
tag_object_unchecked(media_object, tag_id) ==
    Ok([media_object EXCEPT !["tags"] = Append(@, TagData(tag_id))])

\* Library.tag_object, after get_tag_id
tag_object(media_object, tag_id) ==
    IF TagAssigned(media_object["tags"], tag_id)
    THEN ValueError("Tag already assigned to obj")
    ELSE Ok([media_object EXCEPT !["tags"] = Append(@, TagData(tag_id))])

\* Library.untag_object
untag_object(media_object, tag_id) ==
    [media_object EXCEPT !["tags"] = StripAssignments(@, tag_id)]

\* Library.tag_entry on the entry at position `at` of the entry list, after
\* fetch_subtarget_entry and get_tag_id
tag_entry(media_object, entry_type, at, tag_id) ==
    IF TagAssigned(EntriesOf(media_object, entry_type)[at]["tags"], tag_id)
    THEN ValueError("Tag already assigned to entry")
    ELSE Ok([media_object EXCEPT ![entry_type[1]][at]["tags"] =
                                     Append(@, TagData(tag_id))])

\* Library.untag_entry on the entry at position `at`
untag_entry(media_object, entry_type, at, tag_id) ==
    [media_object EXCEPT ![entry_type[1]][at]["tags"] = StripAssignments(@, tag_id)]

\* cli.tag_command on a target that names an object: tag_object or
\* untag_object, then save_library.  Every exception is caught and reported.
TagObjectCommand(media_id, tag_str, remove) ==
    LET at == fetch(media_objects, media_id)
        t == get_tag_id(tags, tag_str)
        r == IF remove THEN Ok(untag_object(media_objects[at], t["value"]))
             ELSE tag_object(media_objects[at], t["value"])
        result(out) == [op |-> "tag_object", object |-> at, tag_str |-> tag_str,
                        remove |-> remove, out |-> out]
    IN  IF at = 0 THEN CommandNotSaved(result(ValueError("No media object found with ID")))
        ELSE IF t["kind"] # "ok" THEN CommandNotSaved(result(ValueError("get_tag_id")))
        ELSE IF r["kind"] # "ok" THEN CommandNotSaved(result(r))
        ELSE CommandSaved([media_objects EXCEPT ![at] = r["value"]], tags, groups,
                          result(Ok(None)), {})

\* cli.tag_command on a target media_id:entry_type:entry_id
TagEntryCommand(media_id, entry_type, entry_id, tag_str, remove) ==
    LET at == fetch(media_objects, media_id)
        e == fetch_subtarget_entry(media_objects[at], entry_type, entry_id)
        t == get_tag_id(tags, tag_str)
        r == IF remove
             THEN Ok(untag_entry(media_objects[at], entry_type, e["value"], t["value"]))
             ELSE tag_entry(media_objects[at], entry_type, e["value"], t["value"])
        result(out) == [op |-> "tag_entry", object |-> at, entry_type |-> entry_type,
                        entry_id |-> entry_id, tag_str |-> tag_str,
                        remove |-> remove, out |-> out]
    IN  IF at = 0 THEN CommandNotSaved(result(ValueError("No media object found with ID")))
        ELSE IF remove /\ t["kind"] # "ok"
        THEN CommandNotSaved(result(ValueError("get_tag_id")))
        ELSE IF e["kind"] = "ValueError" THEN CommandNotSaved(result(e))
        ELSE IF e["kind"] = "None"
        THEN \* `"tags" in entry` on None
             CommandNotSaved(result(Raised("TypeError")))
        ELSE IF t["kind"] # "ok" THEN CommandNotSaved(result(ValueError("get_tag_id")))
        ELSE IF r["kind"] # "ok" THEN CommandNotSaved(result(r))
        ELSE CommandSaved([media_objects EXCEPT ![at] = r["value"]], tags, groups,
                          result(Ok(None)), {})

AssignTagNames == << <<"w">>, <<"m">>, <<"A">>, <<"B">> >>

\* the tags a caller names: ids, the first tag's name in upper case, and a
\* string that resolves to no tag
AssignTagStrs == TagIdPool \cup { <<"W">>, <<"z">> }

\* the entries a caller names: the last one, an id prefix, and an id prefix
\* no entry has
AssignEntryIds == { <<"-", "1">>, <<"e", "e">>, <<"z">> }

\* a library of one video object with one transcript, and NumTagIds tags
InitAssign ==
    /\ media_objects =
          << [NewObject(MkId("c", "1"), "Video",
                        [kind |-> "file", ext |-> ".mp4", content |-> 1])
                EXCEPT !["transcripts"] =
                    << [id |-> MkId("e", "1"), tags |-> <<>>,
                        nodes |-> << [content |-> <<"a">>] >>] >>] >>
    /\ tags = [k \in 1..NumTagIds |->
                  [id |-> MkId(IF k <= 2 THEN "a" ELSE "b", Digits[k]),
                   name |-> AssignTagNames[k], parents |-> <<>>]]
    /\ groups = <<>>
    /\ groupsDefined = TRUE
    /\ usedIds = {MkId("c", "1"), MkId("e", "1")} \cup TagIdPool
    /\ doc = SavedDoc(media_objects, tags, groups)
    /\ last = [op |-> "init"]

NextAssign ==
    \/ \E media_id \in {MkId("c", "1"), <<"x">>}, tag_str \in AssignTagStrs,
          remove \in BOOLEAN :
            TagObjectCommand(media_id, tag_str, remove)
    \/ \E entry_type \in EntryTypes, entry_id \in AssignEntryIds,
          tag_str \in AssignTagStrs, remove \in BOOLEAN :
            TagEntryCommand(MkId("c", "1"), entry_type, entry_id, tag_str, remove)

SpecAssign == InitAssign /\ [][NextAssign]_vars

\* the assignment list the last command was aimed at, in a list of objects
TargetAssignments(objs) ==
    IF last'["op"] = "tag_object" THEN objs[last'["object"]]["tags"]
    ELSE LET e == fetch_subtarget_entry(objs[last'["object"]], last'["entry_type"],
                                        last'["entry_id"])
         IN  EntriesOf(objs[last'["object"]], last'["entry_type"])[e["value"]]["tags"]

TargetResolved ==
    /\ last'["op"] \in {"tag_object", "tag_entry"}
    /\ ~last'["remove"]
    /\ last'["object"] # 0
    /\ get_tag_id(tags, last'["tag_str"])["kind"] = "ok"
    /\ last'["op"] = "tag_entry" =>
          fetch_subtarget_entry(media_objects[last'["object"]], last'["entry_type"],
                                last'["entry_id"])["kind"] = "ok"

AssignmentsUnique(assigned) ==
    \A i, j \in 1..Len(assigned) : i # j => assigned[i]["id"] # assigned[j]["id"]

NoDuplicateAssignments ==
    \A i \in 1..Len(media_objects) :
        /\ AssignmentsUnique(media_objects[i]["tags"])
        /\ \A k \in 1..Len(media_objects[i]["transcripts"]) :
              AssignmentsUnique(media_objects[i]["transcripts"][k]["tags"])
        /\ \A k \in 1..Len(media_objects[i]["speech_data"]) :
              AssignmentsUnique(media_objects[i]["speech_data"][k]["tags"])

\* C18: tag_object and tag_entry fail when the resolved tag is already
\* assigned and leave the assignment list unchanged, so every assignment
\* list holds each tag id at most once
AssignedAtMostOnce ==
    /\ []NoDuplicateAssignments
    /\ [][(TargetResolved
            /\ TagAssigned(TargetAssignments(media_objects),
                           get_tag_id(tags, last'["tag_str"])["value"]))
          => /\ last'["out"]["kind"] = "ValueError"
             /\ media_objects' = media_objects
             /\ doc' = doc]_vars

\* a tag command was refused because the tag was already assigned, on an
\* entry that carries two assignments
TagRefusedAsAssigned ==
    /\ last["op"] = "tag_entry"
    /\ ~last["remove"]
    /\ last["out"] = ValueError("Tag already assigned to entry")
    /\ Len(media_objects[1]["transcripts"][1]["tags"]) = 2
    /\ Len(media_objects[1]["tags"]) = 1

(***************************************************************************)
(* Two processes on one library file.  Each runs one command: load_library, *)
(* a mutation of its own Library object, save_library.  save_library opens  *)
(* the file with mode "w", which truncates it, and the text json.dump       *)
(* produced reaches the file when the `with` block closes it; each process  *)
(* writes through its own file offset, starting at 0.  `doc` is the file,   *)
(* `last` holds the position and the Library object of each process.        *)
(***************************************************************************)
Procs == {1, 2}

\* the file after open(path, "w") and before the text is written
Truncated == [truncated |-> TRUE]

\* the file after a text was written from offset 0 over a longer one: the
\* new text, followed by the end of the old one
Overwritten(new, old) == [head |-> new, rest |-> old]

IsDocument(file) == "tags" \in DOMAIN file

\* the length of the text json.dump writes for a document whose tags have
\* ids and names of one length each: it grows with the number of tags
TextLen(d) == Len(d["tags"])

\* file.write of the whole text at offset 0, and close
WriteText(file, d) ==
    IF IsDocument(file) /\ TextLen(file) > TextLen(d) THEN Overwritten(d, file)
    ELSE d

ProcTagIds == {MkId("t", "1"), MkId("t", "2"), MkId("t", "3")}

\* the mutations a command applies: create_tag(name) and delete_tag(tag_id)
Mutations ==
    { [kind |-> "create_tag", name |-> n] : n \in { <<"m">>, <<"A">> } }
    \cup { [kind |-> "delete_tag", tag_id |-> MkId("t", "1")] }

NoLibrary == [media_objects |-> <<>>, tags |-> <<>>, groups |-> <<>>]

ProcStep(p, pc, mem, loaded, mutation, saved) ==
    last' = [op |-> "procs",
             pc |-> [last["pc"] EXCEPT ![p] = pc],
             mem |-> [last["mem"] EXCEPT ![p] = mem],
             loaded |-> [last["loaded"] EXCEPT ![p] = loaded],
             mutation |-> [last["mutation"] EXCEPT ![p] = mutation],
             saved |-> saved]

\* Library.__init__: load_library.  json.load raises on a file that holds no
\* document, and the command ends there.
ProcLoad(p) ==
    /\ last["pc"][p] = "start"
    /\ IF IsDocument(doc)
       THEN ProcStep(p, "loaded",
                     [media_objects |-> <<>>, tags |-> doc["tags"],
                      groups |-> LoadedGroups(<<>>, doc)],
                     doc, last["mutation"][p], last["saved"])
       ELSE ProcStep(p, "failed", last["mem"][p], doc, last["mutation"][p],
                     last["saved"])
    /\ UNCHANGED <<media_objects, tags, groups, groupsDefined, doc, usedIds>>

\* create_tag or delete_tag on the process's own Library object
ProcMutate(p, m, new_id) ==
    LET mem == last["mem"][p]
    IN  /\ last["pc"][p] = "loaded"
        /\ IF m["kind"] = "create_tag"
           THEN /\ new_id \notin usedIds
                /\ usedIds' = usedIds \cup {new_id}
                /\ IF TagNameExists(mem["tags"], m["name"])
                   THEN ProcStep(p, "failed", mem, last["loaded"][p], m, last["saved"])
                   ELSE ProcStep(p, "mutated",
                                 [mem EXCEPT !["tags"] =
                                     Append(@, [id |-> new_id, name |-> m["name"],
                                                parents |-> <<>>])],
                                 last["loaded"][p], m, last["saved"])
           ELSE /\ usedIds' = usedIds
                /\ ProcStep(p, "mutated",
                            [mem EXCEPT !["tags"] =
                                SelectSeq(@, LAMBDA t : t["id"] # m["tag_id"])],
                            last["loaded"][p], m, last["saved"])
        /\ UNCHANGED <<media_objects, tags, groups, groupsDefined, doc>>

\* save_library up to open(self.library_path, "w")
ProcOpen(p) ==
    /\ last["pc"][p] = "mutated"
    /\ doc' = Truncated
    /\ ProcStep(p, "writing", last["mem"][p], last["loaded"][p], last["mutation"][p],
                last["saved"])
    /\ UNCHANGED <<media_objects, tags, groups, groupsDefined, usedIds>>

\* save_library from json.dump to the end of the `with` block
ProcWrite(p) ==
    LET mem == last["mem"][p]
    IN  /\ last["pc"][p] = "writing"
        /\ doc' = WriteText(doc, SavedDoc(mem["media_objects"], mem["tags"],
                                          mem["groups"]))
        /\ ProcStep(p, "saved", mem, last["loaded"][p], last["mutation"][p],
                    Append(last["saved"], p))
        /\ UNCHANGED <<media_objects, tags, groups, groupsDefined, usedIds>>

\* a library file that holds one tag, and two processes about to start
InitProcs ==
    /\ media_objects = <<>>
    /\ tags = <<>>
    /\ groups = <<>>
    /\ groupsDefined = TRUE
    /\ usedIds = {MkId("t", "1")}
    /\ doc = SavedDoc(<<>>, << [id |-> MkId("t", "1"), name |-> <<"w">>,
                                parents |-> <<>>] >>, <<>>)
    /\ last = [op |-> "procs",
               pc |-> [p \in Procs |-> "start"],
               mem |-> [p \in Procs |-> NoLibrary],
               loaded |-> [p \in Procs |-> NoDoc],
               mutation |-> [p \in Procs |-> [kind |-> "none"]],
               saved |-> <<>>]

NextProcs ==
    \E p \in Procs :
        \/ ProcLoad(p)
        \/ \E m \in Mutations, id \in ProcTagIds : ProcMutate(p, m, id)
        \/ ProcOpen(p)
        \/ ProcWrite(p)

SpecProcs == InitProcs /\ [][NextProcs]_vars

\* C19: when two processes loaded the same document, applied different
\* mutations and both saved, the document holds exactly the in-memory state
\* of the process that saved last
LastSaveWins ==
    (/\ last["op"] = "procs"
     /\ \A p \in Procs : last["pc"][p] = "saved"
     /\ last["loaded"][1] = last["loaded"][2]
     /\ last["mutation"][1] # last["mutation"][2])
    => LET mem == last["mem"][last["saved"][Len(last["saved"])]]
       IN  doc = SavedDoc(mem["media_objects"], mem["tags"], mem["groups"])

(***************************************************************************)
(* Library.search, mode "exact", over a library loaded from a document      *)
(* whose objects hold transcripts and speech_data entries.                  *)
(***************************************************************************)
MaxSearchEntries == 2

\* max_results=10, the default of Library.search
DefaultMaxResults == 10

\* the node texts of an entry: one node, or two nodes of which the second
\* holds an upper-case letter
NodeTexts == { << <<"a">> >>, << <<"w">>, <<"m", "A">> >> }

\* the entry lists of an object: transcript nodes carry "content",
\* speech_data nodes carry "text"
SearchEntryLists(entry_type, idc) ==
    { [k \in 1..Len(texts) |->
          [id |-> MkId(idc, Digits[k]), tags |-> <<>>,
           nodes |-> [n \in 1..Len(texts[k]) |->
                         IF entry_type = "transcripts"
                         THEN [content |-> texts[k][n]]
                         ELSE [text |-> texts[k][n]]]]] :
      texts \in SeqsUpTo(NodeTexts, MaxSearchEntries) }

\* content_key = "content" if "content" in node else "text"
NodeContent(node) ==
    IF "content" \in DOMAIN node THEN node["content"] ELSE node["text"]

\* query in content
IsSubstring(query, content) ==
    \E k \in 0..(Len(content) - Len(query)) :
        SubSeq(content, k + 1, k + Len(query)) = query

\* search._exact_search: the results one entry adds, in node order
RECURSIVE exact_search(_, _, _, _, _, _)
exact_search(media_object, entry_type, entry, query, ignore_case, index) ==
    IF index >= Len(entry["nodes"]) THEN <<>>
    ELSE LET node == entry["nodes"][index + 1]
             content == IF ignore_case THEN Lower(NodeContent(node))
                        ELSE NodeContent(node)
         IN  (IF IsSubstring(query, content)
              THEN << <<NodeContent(node),
                        Locator(media_object, entry_type, entry, index)>> >>
              ELSE <<>>)
             \o exact_search(media_object, entry_type, entry, query, ignore_case,
                             index + 1)

EntryRefs(i, entry_type, n) ==
    [j \in 1..n |-> [object |-> i, entry_type |-> entry_type, entry |-> j]]

\* a variant of entries_to_search that takes the first entry of a list
\* where the code takes the last
RECURSIVE entries_to_search_first(_, _, _)
entries_to_search_first(objs, full_search, i) ==
    IF i > Len(objs) THEN <<>>
    ELSE (IF full_search
          THEN EntryRefs(i, <<"speech_data">>, Len(objs[i]["speech_data"]))
                 \o EntryRefs(i, <<"transcripts">>, Len(objs[i]["transcripts"]))
          ELSE IF objs[i]["speech_data"] # <<>>
          THEN << [object |-> i, entry_type |-> <<"speech_data">>, entry |-> 1] >>
          ELSE IF objs[i]["transcripts"] # <<>>
          THEN << [object |-> i, entry_type |-> <<"transcripts">>, entry |-> 1] >>
          ELSE <<>>)
         \o entries_to_search_first(objs, full_search, i + 1)

\* Library.search: entries_to_search from object i on, as positions
RECURSIVE entries_to_search(_, _, _)
entries_to_search(objs, full_search, i) ==
    IF i > Len(objs) THEN <<>>
    ELSE (IF full_search
          THEN EntryRefs(i, <<"speech_data">>, Len(objs[i]["speech_data"]))
                 \o EntryRefs(i, <<"transcripts">>, Len(objs[i]["transcripts"]))
          ELSE IF objs[i]["speech_data"] # <<>>
          THEN << [object |-> i, entry_type |-> <<"speech_data">>,
                   entry |-> Len(objs[i]["speech_data"])] >>
          ELSE IF objs[i]["transcripts"] # <<>>
          THEN << [object |-> i, entry_type |-> <<"transcripts">>,
                   entry |-> Len(objs[i]["transcripts"])] >>
          ELSE <<>>)
         \o entries_to_search(objs, full_search, i + 1)

\* Library.search: the loop over entries_to_search, left once max_results
\* results are there
RECURSIVE search_entries(_, _, _, _, _, _)
search_entries(objs, entries, query, ignore_case, max_results, results) ==
    IF entries = <<>> THEN results
    ELSE LET e == Head(entries)
             found == results
                 \o exact_search(objs[e["object"]], e["entry_type"],
                                 EntriesOf(objs[e["object"]], e["entry_type"])[e["entry"]],
                                 query, ignore_case, 0)
         IN  IF Len(found) >= max_results THEN found
             ELSE search_entries(objs, Tail(entries), query, ignore_case,
                                 max_results, found)

\* Library.search(query, mode="exact", max_results, ignore_case, full_search)
search(objs, query, max_results, ignore_case, full_search) ==
    Take(search_entries(objs, entries_to_search(objs, full_search, 1),
                        IF ignore_case THEN Lower(query) ELSE query,
                        ignore_case, max_results, <<>>),
         max_results)

Search(query, max_results, ignore_case, full_search) ==
    /\ last' = [op |-> "search", query |-> query, max_results |-> max_results,
                ignore_case |-> ignore_case, full_search |-> full_search,
                entries |-> entries_to_search(media_objects, full_search, 1),
                out |-> search(media_objects, query, max_results, ignore_case,
                               full_search)]
    /\ UNCHANGED <<media_objects, tags, groups, groupsDefined, doc, usedIds>>

\* a library of two video objects: the first with transcripts and
\* speech_data, the second with transcripts only
InitSearch ==
    /\ \E t1 \in SearchEntryLists("transcripts", "e"),
          s1 \in SearchEntryLists("speech_data", "s"),
          t2 \in SearchEntryLists("transcripts", "f") :
          media_objects =
            << [NewObject(MkId("c", "1"), "Video",
                          [kind |-> "file", ext |-> ".mp4", content |-> 1])
                  EXCEPT !["transcripts"] = t1, !["speech_data"] = s1],
               [NewObject(MkId("c", "2"), "Video",
                          [kind |-> "file", ext |-> ".mp4", content |-> 2])
                  EXCEPT !["transcripts"] = t2] >>
    /\ tags = <<>>
    /\ groups = <<>>
    /\ groupsDefined = TRUE
    /\ usedIds = {}
    /\ doc = SavedDoc(media_objects, tags, groups)
    /\ last = [op |-> "init"]

NextSearch ==
    \E query \in { <<"A">>, <<"m">> }, max_results \in {1, DefaultMaxResults},
       ignore_case \in BOOLEAN, full_search \in BOOLEAN :
        Search(query, max_results, ignore_case, full_search)

SpecSearch == InitSearch /\ [][NextSearch]_vars

\* the entries the claim names for a search
ClaimedEntries(full_search) ==
    IF full_search
    THEN { r \in [object : 1..Len(media_objects), entry_type : EntryTypes,
                   entry : 1..MaxSearchEntries] :
             r["entry"] <= Len(EntriesOf(media_objects[r["object"]], r["entry_type"])) }
    ELSE { [object |-> i,
            entry_type |-> IF media_objects[i]["speech_data"] # <<>>
                           THEN <<"speech_data">> ELSE <<"transcripts">>,
            entry |-> IF media_objects[i]["speech_data"] # <<>>
                      THEN Len(media_objects[i]["speech_data"])
                      ELSE Len(media_objects[i]["transcripts"])] :
             i \in {k \in 1..Len(media_objects) :
                      media_objects[k]["speech_data"] # <<>>
                        \/ media_objects[k]["transcripts"] # <<>>} }

\* the results the matching nodes of an entry give
MatchesOf(e) ==
    LET o == media_objects[e["object"]]
        entry == EntriesOf(o, e["entry_type"])[e["entry"]]
    IN  { <<NodeContent(entry["nodes"][n + 1]), Locator(o, e["entry_type"], entry, n)>> :
            n \in { k \in 0..(Len(entry["nodes"]) - 1) :
                      IF last["ignore_case"]
                      THEN IsSubstring(Lower(last["query"]),
                                       Lower(NodeContent(entry["nodes"][k + 1])))
                      ELSE IsSubstring(last["query"],
                                       NodeContent(entry["nodes"][k + 1])) } }

\* C20: with full_search off the matches come only from each object's last
\* speech_data entry, or its last transcript when it has no speech_data; with
\* full_search on every matching node of every entry is returned, up to
\* max_results
SearchScope ==
    last["op"] = "search"
    => LET claimed == ClaimedEntries(last["full_search"])
           out == last["out"]
       IN  /\ {last["entries"][k] : k \in 1..Len(last["entries"])} = claimed
           /\ Len(out) <= last["max_results"]
           /\ \A k \in 1..Len(out) : \E e \in claimed : out[k] \in MatchesOf(e)
           /\ Len(out) < last["max_results"] =>
                 \A e \in claimed : \A m \in MatchesOf(e) :
                     \E k \in 1..Len(out) : out[k] = m

\* a search with full_search off found a match while an entry it did not
\* look at, an earlier speech_data entry of the first object, matches too
SearchSkippedOlderMatch ==
    /\ last["op"] = "search"
    /\ ~last["full_search"]
    /\ last["query"] = <<"m">>
    /\ Len(last["out"]) = 1
    /\ Len(media_objects[1]["speech_data"]) = 2
    /\ Len(media_objects[1]["transcripts"]) >= 1
    /\ MatchesOf([object |-> 1, entry_type |-> <<"speech_data">>, entry |-> 1]) # {}
    /\ MatchesOf([object |-> 1, entry_type |-> <<"speech_data">>, entry |-> 2]) = {}

(***************************************************************************)
(* cli.rm_command over several targets that name media objects.            *)
(***************************************************************************)

\* Library.remove_media_object, delete_file = False
remove_media_object(objs, id) == SelectSeq(objs, LAMBDA o : o["id"] # id)

\* the loop of rm_command: one fetch and one remove_media_object per target;
\* the ValueError of fetch leaves the loop
RECURSIVE rm_targets(_, _)
rm_targets(objs, targets) ==
    IF targets = <<>> THEN Ok(objs)
    ELSE IF fetch(objs, Head(targets)) = 0
    THEN ValueError("No media object found with ID")
    ELSE rm_targets(remove_media_object(objs, objs[fetch(objs, Head(targets))]["id"]),
                    Tail(targets))

\* `catalog rm TARGETS...`, every prompt answered with yes.  The try block
\* holds the loop and save_library; the except clauses only report.
RmCommand(targets) ==
    LET r == rm_targets(media_objects, targets)
    IN  IF r["kind"] # "ok"
        THEN /\ last' = [op |-> "rm", targets |-> targets, out |-> r]
             /\ UNCHANGED <<media_objects, tags, groups, groupsDefined, doc, usedIds>>
        ELSE /\ media_objects' = r["value"]
             /\ doc' = SavedDoc(r["value"], tags, groups)
             /\ last' = [op |-> "rm", targets |-> targets, out |-> Ok(None)]
             /\ UNCHANGED <<tags, groups, groupsDefined, usedIds>>

\* the targets of one rm call: up to three of the object ids and an id no
\* object has
RmTargets ==
    LET ids == ObjIdPool \cup { <<"x">> }
    IN  { <<a>> : a \in ids } \cup { <<a, b>> : a \in ids, b \in ids }
          \cup { <<a, b, c>> : a \in ids, b \in ids, c \in ids }

NextRm == \E targets \in RmTargets : RmCommand(targets)

SpecRm == InitEntries /\ [][NextRm]_vars

\* C21: a batch rm that meets a target it cannot find still removes the
\* objects its other targets name, and the removals are saved
RmContinuesPastFailure ==
    [][last'["op"] = "rm" =>
          \A k \in 1..Len(last'["targets"]) :
              LET id == last'["targets"][k]
              IN  (\E i \in 1..Len(media_objects) : media_objects[i]["id"] = id)
                  => \A i \in 1..Len(doc'["media_objects"]) :
                         doc'["media_objects"][i]["id"] # id]_vars

(***************************************************************************)
(* Library.get_tag_name on the tag states the tag operations reach.        *)
(***************************************************************************)

\* a call of get_tag_name(tag_id, mode)
GetTagName(tag_id, mode) ==
    /\ last' = [op |-> "get_tag_name", tag_id |-> tag_id, mode |-> mode,
                out |-> get_tag_name(tags, tag_id, mode)]
    /\ UNCHANGED <<media_objects, tags, groups, groupsDefined, doc, usedIds>>

NextTagNames ==
    \/ NextTags
    \/ \E tag_id \in TagIdPool, mode \in {"full", "name"} : GetTagName(tag_id, mode)

SpecTagNames == InitTags /\ [][NextTagNames]_vars

\* C22: in every reachable tag state get_tag_name terminates for every tag;
\* mode=full returns the names along the first-parent chain joined by "/",
\* mode=name the tag's own name
GetTagNameTerminates ==
    (last["op"] = "get_tag_name" /\ TagIndex(tags, last["tag_id"]) # 0)
    => /\ last["out"]["kind"] = "ok"
       /\ last["mode"] = "name" =>
             last["out"]["value"] = tags[TagIndex(tags, last["tag_id"])]["name"]

(***************************************************************************)
(* Library.fetch(ids) on a list of id strings.                             *)
(***************************************************************************)

\* Library.fetch(ids): the positions of the objects returned, or the
\* ValueError raised at the first id that starts no object id
fetch_ids(objs, ids) ==
    IF \E k \in 1..Len(ids) : fetch(objs, ids[k]) = 0
    THEN ValueError("No media object found with ID")
    ELSE Ok([k \in 1..Len(ids) |-> fetch(objs, ids[k])])

Fetch(ids) ==
    /\ last' = [op |-> "fetch", ids |-> ids, out |-> fetch_ids(media_objects, ids)]
    /\ UNCHANGED <<media_objects, tags, groups, groupsDefined, doc, usedIds>>

\* the id lists of a call: none, one or two of whole ids, the prefix all
\* object ids share, the empty string, and a string that starts no id
FetchIdLists ==
    LET ids == ObjIdPool \cup { <<"c">>, <<>>, <<"x">> }
    IN  { <<>> } \cup { <<a>> : a \in ids } \cup { <<a, b>> : a \in ids, b \in ids }

NextFetch ==
    \/ \E ids \in FetchIdLists : Fetch(ids)
    \/ \E id \in ObjIdPool : RmCommand(<<id>>)

SpecFetch == InitEntries /\ [][NextFetch]_vars

\* C23: fetch(ids) returns one object per input string, in input order, each
\* the first object in media_objects order whose id starts with the string;
\* it fails exactly when some string starts no object id
FetchFirstMatches ==
    last["op"] = "fetch"
    => LET ids == last["ids"]
           Matches(k) == {i \in 1..Len(media_objects) :
                             StartsWith(media_objects[i]["id"], ids[k])}
       IN  IF \E k \in 1..Len(ids) : Matches(k) = {}
           THEN last["out"]["kind"] = "ValueError"
           ELSE /\ last["out"]["kind"] = "ok"
                /\ Len(last["out"]["value"]) = Len(ids)
                /\ \A k \in 1..Len(ids) :
                      /\ last["out"]["value"][k] \in Matches(k)
                      /\ \A j \in Matches(k) : last["out"]["value"][k] <= j

\* a fetch of a whole id followed by a prefix that two objects share
FetchAmbiguousPrefix ==
    /\ last["op"] = "fetch"
    /\ Len(media_objects) >= 2
    /\ last["ids"] = <<media_objects[2]["id"], <<"c">> >>
    /\ last["out"] = Ok(<<2, 1>>)

(***************************************************************************)
(* import_media_object called directly: media_object_class and auto are    *)
(* independent arguments of the method (make_copy at its default).         *)
(***************************************************************************)
NextImportCall ==
    \E src \in Sources, cls \in ImportClasses \cup {NoClass}, auto \in BOOLEAN,
       id \in ObjIdPool :
        ImportMediaObject(src, cls, auto, TRUE, id)

SpecImportCall == InitImport /\ [][NextImportCall]_vars

\* C24: import_media_object with auto set and a file extension outside the
\* extension-to-class table fails with a rejection naming the extension, and
\* import of a path whose file does not exist fails with a different,
\* file-not-found failure; in both cases media_objects and the persisted
\* document are unchanged.
ImportRejectionsLeaveLibrary ==
    [][last'["op"] = "import_media_object" /\ last'["src"]["kind"] # "url" =>
          IF last'["auto"] /\ ExtClass(last'["src"]["ext"]) = NoClass
          THEN /\ last'["out"] = Unsupported(last'["src"]["ext"])
               /\ media_objects' = media_objects
               /\ doc' = doc
          ELSE (last'["src"]["kind"] = "missing" /\ last'["cls"] \in MediaClasses) =>
                   /\ last'["out"] = Raised("FileNotFoundError")
                   /\ media_objects' = media_objects
                   /\ doc' = doc]_vars

(***************************************************************************)
(* Markdown export.  A template is its YAML frontmatter block (the lines   *)
(* between the leading "---" fences; <<>> when it has none) and the text   *)
(* below it as a sequence of words.  A frontmatter line is a key holding a *)
(* one-item list, written with some quoting style and indentation.         *)
(***************************************************************************)
MaxTemplateWords == 2

FileNamePlaceholder == "[[FILE_NAME.ext]]"
LrcPlaceholder == "LRC_DEST"

TemplateWords == {"a", FileNamePlaceholder, LrcPlaceholder}

FrontmatterLines ==
    {e \in [key : {"category"}, value : {"voice", "[[voice]]"},
            style : {"plain", "double", "single"}, indent : {0, 2}] :
        \* a plain [[voice]] is a flow sequence, not a string
        e["value"] = "[[voice]]" => e["style"] # "plain"}

Templates ==
    [frontmatter : {<<>>} \cup {<<e>> : e \in FrontmatterLines},
     body : SeqsUpTo(TemplateWords, MaxTemplateWords)]

NoTemplate == [missing |-> TRUE]

\* str.replace(old, new) over the words of a text
RECURSIVE str_replace(_, _, _)
str_replace(s, old, new) ==
    IF s = <<>> THEN <<>>
    ELSE (IF Head(s) = old THEN new ELSE <<Head(s)>>) \o str_replace(Tail(s), old, new)

\* yaml.safe_load of a frontmatter line: the data, without its presentation
yaml_safe_load(e) == [key |-> e["key"], value |-> e["value"]]

\* yaml.dump(default_flow_style=False): block style, list items not indented,
\* a string quoted (with single quotes) only when a plain scalar cannot hold it
yaml_dump(d) ==
    [key |-> d["key"], value |-> d["value"],
     style |-> IF d["value"] = "[[voice]]" THEN "single" ELSE "plain",
     indent |-> 0]

\* a frontmatter line for a scalar, as yaml.dump writes frontmatter["created"]
CreatedLine(created_str) ==
    [key |-> "created", value |-> created_str, style |-> "single", indent |-> 0]

\* utils/conversion.py prepare_markdown(template_src, lrc_str, filename_str)
conversion_prepare_markdown(template, lrc_str, filename_str) ==
    IF template = NoTemplate THEN Raised("FileNotFoundError")
    ELSE [kind |-> "ok",
          value |-> [frontmatter |-> template["frontmatter"],
                     body |-> str_replace(
                                 str_replace(template["body"], FileNamePlaceholder,
                                             <<"[[">> \o filename_str \o <<"]]">>),
                                 LrcPlaceholder, lrc_str)]]

\* utils/export.py prepare_markdown(template_src, lrc_str, backlink_str, created_str)
prepare_markdown(template, lrc_str, backlink_str, created_str) ==
    IF template = NoTemplate THEN Raised("FileNotFoundError")
    ELSE LET markdown_content ==
                 conversion_prepare_markdown(template, lrc_str, backlink_str)["value"]
             frontmatter == [i \in 1..Len(markdown_content["frontmatter"]) |->
                                yaml_dump(yaml_safe_load(markdown_content["frontmatter"][i]))]
             updated == IF created_str = None THEN frontmatter
                        ELSE Append(frontmatter, CreatedLine(created_str))
         IN  [kind |-> "ok",
              value |-> IF markdown_content["frontmatter"] = <<>> THEN markdown_content
                        ELSE [markdown_content EXCEPT !["frontmatter"] = updated]]

PrepareMarkdown(created_str) ==
    /\ last["op"] = "template"
    /\ last' = [op |-> "prepare_markdown", module |-> "export",
                template |-> last["template"], lrc |-> last["lrc"],
                filename |-> last["filename"], created |-> created_str,
                out |-> prepare_markdown(last["template"], last["lrc"],
                                         last["filename"], created_str)]
    /\ UNCHANGED <<media_objects, tags, groups, groupsDefined, doc, usedIds>>

ConversionPrepareMarkdown ==
    /\ last["op"] = "template"
    /\ last' = [op |-> "prepare_markdown", module |-> "conversion",
                template |-> last["template"], lrc |-> last["lrc"],
                filename |-> last["filename"], created |-> None,
                out |-> conversion_prepare_markdown(last["template"], last["lrc"],
                                                    last["filename"])]
    /\ UNCHANGED <<media_objects, tags, groups, groupsDefined, doc, usedIds>>

LrcTexts == {<<"l">>, <<"l", FileNamePlaceholder>>}
FileNames == {<<"file.wav">>, <<LrcPlaceholder, ".wav">>}

InitMarkdown ==
    /\ media_objects = <<>>
    /\ tags = <<>>
    /\ groups = <<>>
    /\ groupsDefined = TRUE
    /\ doc = NoDoc
    /\ usedIds = {}
    /\ last \in {[op |-> "template", template |-> t, lrc |-> l, filename |-> f] :
                    t \in Templates \cup {NoTemplate}, l \in LrcTexts, f \in FileNames}

NextMarkdown ==
    \/ \E created_str \in {None, <<"2024-01-01T10:00:00">>} : PrepareMarkdown(created_str)
    \/ ConversionPrepareMarkdown

SpecMarkdown == InitMarkdown /\ [][NextMarkdown]_vars

\* the template with each placeholder word replaced, everything else as it was
RECURSIVE Substituted(_, _, _)
Substituted(s, lrc, filename) ==
    IF s = <<>> THEN <<>>
    ELSE (CASE Head(s) = FileNamePlaceholder -> <<"[[">> \o filename \o <<"]]">>
            [] Head(s) = LrcPlaceholder -> lrc
            [] OTHER -> <<Head(s)>>) \o Substituted(Tail(s), lrc, filename)

\* C25: prepare_markdown(template, lrc_content, filename) returns the template
\* text with the placeholder [[FILE_NAME.ext]] replaced by [[filename]] and
\* LRC_DEST replaced by the LRC content, every other character of the
\* template (its frontmatter included) unchanged.
PrepareMarkdownSubstitutes ==
    (/\ last["op"] = "prepare_markdown"
     /\ last["created"] = None
     /\ last["template"] # NoTemplate) =>
        last["out"] = [kind |-> "ok",
                       value |-> [frontmatter |-> last["template"]["frontmatter"],
                                  body |-> Substituted(last["template"]["body"],
                                                       last["lrc"], last["filename"])]]

(***************************************************************************)
(* Objects are put in a group and removed, each command saving the library. *)
(***************************************************************************)
\* a command whose Library(...) cannot be built: load_library raises the
\* ValueError of Library.fetch, and the command does nothing
LibraryLoadFails ==
    /\ ~GroupObjectsFetched(doc["media_objects"], doc["groups"])
    /\ last' = [op |-> "load_library", out |-> Raised("ValueError")]
    /\ UNCHANGED <<media_objects, tags, groups, groupsDefined, doc, usedIds>>

NextGroupRm ==
    \/ \E ids \in IdLists, id \in GroupIdPool :
          /\ GroupObjectsFetched(doc["media_objects"], doc["groups"])
          /\ GroupObjectsCommand(<<"w">>, ids, id)
    \/ \E id \in ObjIdPool :
          /\ GroupObjectsFetched(doc["media_objects"], doc["groups"])
          /\ RmCommand(<<id>>)
    \/ LibraryLoadFails

SpecGroupRm == InitGroupObjects /\ [][NextGroupRm]_vars

\* C26: in every reachable state, each media object held in any group's
\* objects list is present in the library's media_objects, so a document
\* written by save_library after any sequence of operations can be loaded
\* again by load_library.
GroupObjectsInLibrary ==
    /\ \A g \in 1..Len(groups) :
           \A i \in 1..Len(groups[g]["objects"]) :
               \E k \in 1..Len(media_objects) :
                   media_objects[k]["id"] = groups[g]["objects"][i]
    /\ GroupObjectsFetched(doc["media_objects"], doc["groups"])

\* C27: import_media_object returns an already stored object instead of
\* adding a new one only when that object's content is identical to the
\* content of the source being imported; in particular, importing two
\* different sources that have no local file content hash (URL imports) adds
\* two distinct objects.
ExistingReturnedOnlyForSameContent ==
    [][( /\ last'["op"] = "import_media_object"
         /\ last'["out"]["kind"] = "ok"
         /\ media_objects' = media_objects )
       => \E i \in 1..Len(media_objects) :
              /\ media_objects[i]["id"] = last'["out"]["value"]
              /\ IF last'["src"]["kind"] = "url"
                 THEN media_objects[i]["url"] = last'["src"]["url"]
                 ELSE media_objects[i]["md5_hash"] = Md5(last'["src"]["content"])]_vars

(***************************************************************************)
(* Library.delete_group called with the identifiers fetch_group accepts.   *)
(***************************************************************************)

\* Library.delete_group(group_id): fetch_group resolves the identifier, then
\* the top-level list is filtered by `g.id != group_id`, the identifier as
\* given; the result is saved
DeleteGroup(group_id) ==
    LET g == fetch_group(groups, group_id)
    IN  IF g["kind"] # "ok" THEN GroupsNotSaved(g, "delete_group")
        ELSE GroupsSaved(delete_group(groups, group_id),
                         Ok(groups[g["value"]]["id"]), "delete_group", {})

NextDeleteGroup ==
    \/ \E name \in GroupNames, nested \in NestedLists, id \in GroupIdPool :
          GroupCommand(name, nested, TRUE, id)
    \/ \E g \in GroupIdentifiers : DeleteGroup(g)

SpecDeleteGroup == InitGroups /\ [][NextDeleteGroup]_vars

\* C28: delete_group(identifier) removes the group that
\* fetch_group(identifier) resolves to, whether identifier is a full id, an
\* id prefix or a name, from the library's top-level groups and from the
\* subgroup list of every other group; afterwards that group is no longer in
\* the library.
DeleteGroupRemovesResolved ==
    [][(last'["op"] = "delete_group" /\ last'["out"]["kind"] = "ok")
          => last'["out"]["value"] \notin ForestIds(groups')]_vars

\* C29: in every reachable tag state, each id in a tag's parents list is the
\* id of a tag that exists in the tag set; in particular after delete_tag(id)
\* no remaining tag lists id among its parents.
ParentsExist ==
    \A i \in 1..Len(tags) :
        \A j \in 1..Len(tags[i]["parents"]) :
            tags[i]["parents"][j] \in TagIds(tags)

(***************************************************************************)
(* Editing a node (src/catalog/utils.py update_node_content).  A text in a *)
(* history record is Str(s), or PyNone where the code stored None.         *)
(***************************************************************************)
MaxEdits == 2

Str(s) == [kind |-> "str", value |-> s]
PyNone == [kind |-> "None"]

\* node.get(key)
NodeGet(node, key) == IF key \in DOMAIN node THEN Str(node[key]) ELSE PyNone

\* a or b: b when a is None or the empty string
PyOr(a, b) == IF a = PyNone \/ a = Str(<<>>) THEN b ELSE a

\* update_node_content, from the node found to the node written back
updated_node(node, new_content, author) ==
    LET initial == << [version |-> 1,
                       content |-> PyOr(NodeGet(node, "content"), NodeGet(node, "text")),
                       updated_by |-> NodeGet(node, "updated_by")] >>
        history == IF "value_history" \in DOMAIN node THEN node["value_history"]
                   ELSE initial
        current_version == IF "value_history" \in DOMAIN node
                           THEN Len(node["value_history"]) ELSE 1
        history_entry == [version |-> current_version + 1, content |-> Str(new_content),
                          updated_by |-> Str(author)]
        written == IF "content" \in DOMAIN node
                   THEN [node EXCEPT !["content"] = new_content]
                   ELSE [node EXCEPT !["text"] = new_content]
    IN  IF "content" \notin DOMAIN node /\ "text" \notin DOMAIN node
        THEN ValueError("Node does not have 'content' or 'text' field.")
        ELSE Ok([value_history |-> Append(history, history_entry)] @@ written)

\* update_node_content.fetch_node for the locator search emits for node n of
\* entry j of object i
LocatedNode(i, entry_type, j, n) ==
    LET locator == Locator(media_objects[i], entry_type,
                           EntriesOf(media_objects[i], entry_type)[j], n)
        p == parse_node_locator(locator)
    IN  IF p["kind"] # "ok" THEN p
        ELSE fetch_node(media_objects, p["media_id"], p["entry_type"],
                        p["entry_id"], p["has_node_index"], p["node_index"])

\* update_node_content(locator, new_content) with that locator
UpdateNodeContent(i, entry_type, j, n, new_content) ==
    \E found \in {LocatedNode(i, entry_type, j, n)} :
        IF found["kind"] # "ok"
        THEN /\ last' = [op |-> "update_node_content", out |-> found]
             /\ UNCHANGED <<media_objects, tags, groups, groupsDefined, doc, usedIds>>
        ELSE \E o \in {found["value"]["object"]}, e \in {found["value"]["entry"]},
                k \in {found["value"]["node"] + 1} :
             \E new_node \in {updated_node(media_objects[o]["transcripts"][e]["nodes"][k],
                                           new_content, <<"user">>)} :
               IF new_node["kind"] # "ok"
               THEN /\ last' = [op |-> "update_node_content", out |-> new_node]
                    /\ UNCHANGED <<media_objects, tags, groups, groupsDefined, doc, usedIds>>
               ELSE /\ Len(new_node["value"]["value_history"]) <= MaxEdits + 1
                    /\ media_objects' =
                           [media_objects EXCEPT
                               ![o]["transcripts"][e]["nodes"][k] = new_node["value"]]
                    /\ doc' = SavedDoc(media_objects', tags, groups)
                    /\ last' = [op |-> "update_node_content", out |-> found]
                    /\ UNCHANGED <<tags, groups, groupsDefined, usedIds>>

\* the segments of a transcription; a segment's text may be empty
EditSegmentLists == { << <<"a">> >>, << <<"a">>, <<>> >> }

NextEdit ==
    \/ \E id \in EntryIdPool, segments \in EditSegmentLists : Transcribe(1, id, segments)
    \/ \E i \in 1..Len(media_objects), new_content \in { <<"b">>, <<"c">> } :
         \E j \in 1..Len(media_objects[i]["transcripts"]) :
           \E n \in 0..(Len(media_objects[i]["transcripts"][j]["nodes"]) - 1) :
            UpdateNodeContent(i, <<"transcripts">>, j, n, new_content)

SpecEdit == InitEntries /\ [][NextEdit]_vars

\* the nodes of the entry an edit resolved to
EditedNodes(objs) ==
    objs[last'["out"]["value"]["object"]]["transcripts"]
        [last'["out"]["value"]["entry"]]["nodes"]

\* C30: after k successive successful update_node_content edits of one node,
\* its value_history has k+1 records whose version fields are 1, 2, ..., k+1
\* in order, the first record holds the node's original text, the last
\* record holds the node's current text, and no other node of the entry is
\* changed.  Stated per edit: the first edit makes a history of two records
\* starting with the text the node had, every later edit appends one record
\* to the history it finds.
EditHistoryRecordsEveryText ==
    [][(last'["op"] = "update_node_content" /\ last'["out"]["kind"] = "ok") =>
          LET at == last'["out"]["value"]["node"] + 1
              old == EditedNodes(media_objects)[at]
              new == EditedNodes(media_objects')[at]
              h == new["value_history"]
          IN  /\ \A v \in 1..Len(h) : h[v]["version"] = v
              /\ IF "value_history" \in DOMAIN old
                 THEN SubSeq(h, 1, Len(h) - 1) = old["value_history"]
                 ELSE Len(h) = 2 /\ h[1]["content"] = Str(old["content"])
              /\ h[Len(h)]["content"] = Str(new["content"])
              /\ \A m \in 1..Len(EditedNodes(media_objects)) :
                     m # at => EditedNodes(media_objects')[m] = EditedNodes(media_objects)[m]]_vars

====
